---- MODULE Spec2Model ----
(***************************************************************************)
(* Jira Refinement Copilot V2.1 (src/jira_quize.py): the classification    *)
(* and composition pipeline run by jira_refinement_copilot_v2.             *)
(*                                                                         *)
(* Conventions of the model                                                *)
(*  - Python str values are TLA+ strings; "in", lower(), strip() and       *)
(*    ", ".join() are computed on them character by character.             *)
(*  - The source strings hold three non-ASCII glyphs, written here as      *)
(*    "(!)" (warning sign), "[v]" (check mark) and "[x]" (ballot x).        *)
(*  - Confidences and thresholds are floats with two decimals in the       *)
(*    source; the model keeps them as integers in hundredths (0.65 = 65).  *)
(*  - A value that came out of json.loads is a tagged record: Str(s),      *)
(*    Num(n), Null, List(seq) or an object (a function from its keys).     *)
(*  - The text a classifier returns is kept by what json.loads makes of    *)
(*    it: a JSONDecodeError, or the value it parses to.                    *)
(*  - The exceptions a capability raises are subclasses of Exception.      *)
(***************************************************************************)
EXTENDS Integers, Sequences, FiniteSets, TLC

VARIABLES
  pc,                 \* position of the invocation in jira_refinement_copilot_v2
  user_question,      \* argument user_question
  context,            \* local context (step 1)
  style,              \* local style (step 2)
  intent_data,        \* local intent_data (step 3)
  threshold,          \* local threshold (step 4)
  needs_assumptions,  \* local needs_assumptions (step 5)
  final_prompt,       \* local final_prompt (step 6)
  response,           \* local response (steps 7 and 8)
  returned,           \* the value handed back to the caller
  raised,             \* TRUE iff an exception left the orchestrator
  path,               \* which return statement ended the invocation
  cls_beh,            \* what llm_classifier did when it was called
  gen_beh,            \* what llm_main did when it was called
  classifier_calls,   \* calls of llm_classifier in this invocation
  generator_calls,    \* calls of llm_main in this invocation
  prompt_seen,        \* the prompt llm_main was called with
  ag_pc,              \* assumption_gate called on its own: position
  ag_intent,          \*   its argument intent
  ag_context,         \*   its argument context
  ag_result,          \*   its result
  uq_pc,              \* extract_context and detect_response_style called on
                      \*   their own: position
  uq_words,           \*   the phrases the question is made of
  uq_question,        \*   their argument question
  uq_context,         \*   the dict extract_context returned
  uq_style,           \*   the style detect_response_style returned
  uq_run,             \*   the orchestrator run on the same question
  cp_pc,              \* compose_final_prompt called on its own: position
  cp_args,            \*   its arguments
  cp_prompt,          \*   the string it returned
  iv_frames,          \* interleaved invocations: the locals of each
  iv_tables,          \*   the module-level tables they all read
  iv_returns          \*   how many invocations have returned so far

pipeVars == <<pc, user_question, context, style, intent_data, threshold,
              needs_assumptions, final_prompt, response, returned, raised,
              path, cls_beh, gen_beh, classifier_calls, generator_calls,
              prompt_seen>>
agVars == <<ag_pc, ag_intent, ag_context, ag_result>>
unitVars == <<uq_pc, uq_words, uq_question, uq_context, uq_style, uq_run,
              cp_pc, cp_args, cp_prompt>>
ivVars == <<iv_frames, iv_tables, iv_returns>>
vars == <<pipeVars, agVars, unitVars, ivVars>>

-----------------------------------------------------------------------------
(* Bounds of the model.                                                    *)

\* longest secondary_intents list a classifier reports
MaxSecondary == 2

\* most invocations that return while invocations are interleaved
MaxReturns == 2

\* most phrases a question is made of, when the question functions are
\* called on their own
MaxPhrases == 2

-----------------------------------------------------------------------------
(* Python values.                                                          *)

Str(s) == [t |-> "str", v |-> s]
Num(n) == [t |-> "num", v |-> n]
Null == [t |-> "null"]
\* a JSON true or false, a bool of Python
Bool(b) == [t |-> "bool", v |-> b]
List(q) == [t |-> "list", v |-> q]

\* dict.get(key, default) on a dict with string keys
DictGet(d, key, default) ==
  IF key.t = "str" /\ key.v \in DOMAIN d THEN d[key.v] ELSE default

\* a dict built at run time (a context) is the sequence of its items
\* <<key, value>> in insertion order, as the dict keeps them
DictKeys(d) == {d[i][1] : i \in 1..Len(d)}

\* d[key], for a key of the dict
DictItem(d, key) == d[CHOOSE i \in 1..Len(d) : d[i][1] = key][2]

\* every dict whose keys are some of the given keys, in any insertion
\* order, with boolean values
RECURSIVE OrderedDicts(_)
OrderedDicts(keys) ==
  {<<>>} \cup UNION {{<<<<k, b>>>> \o d : b \in BOOLEAN,
                                        d \in OrderedDicts(keys \ {k})} :
                      k \in keys}

\* hash(key) succeeds: a list and a dict are unhashable (TypeError)
Hashable(key) == key.t \notin {"list", "obj"}

\* bool(value) as "if secondary_intents:" takes it
Truthy(value) ==
  CASE value.t = "null" -> FALSE
    [] value.t = "list" -> Len(value.v) > 0
    [] value.t = "str" -> value.v # ""
    [] value.t = "num" -> value.v # 0
    [] value.t = "obj" -> DOMAIN value.v # {}
    [] value.t = "bool" -> value.v

\* format(value, ".2f") succeeds: numbers take the format code f, and so
\* does a bool, which is an int (True gives "1.00")
FormatsAsFloat(value) == value.t \in {"num", "bool"}

\* the number a value is compared as, in hundredths: True is 1 and False
\* is 0
NumberOf(value) ==
  IF value.t = "bool" THEN (IF value.v THEN 100 ELSE 0) ELSE value.v

\* needle in haystack, for two str
Contains(haystack, needle) ==
  \E i \in 1..(Len(haystack) - Len(needle) + 1) :
    SubSeq(haystack, i, i + Len(needle) - 1) = needle

\* the strings of the model are over the characters U+0000 to U+00FF;
\* str.lower() of one character: the letters A to Z and the upper-case
\* letters of U+00C0 to U+00DE have a lower-case form
LowerChar(c) ==
  CASE c = "A" -> "a" [] c = "B" -> "b" [] c = "C" -> "c" [] c = "D" -> "d"
    [] c = "E" -> "e" [] c = "F" -> "f" [] c = "G" -> "g" [] c = "H" -> "h"
    [] c = "I" -> "i" [] c = "J" -> "j" [] c = "K" -> "k" [] c = "L" -> "l"
    [] c = "M" -> "m" [] c = "N" -> "n" [] c = "O" -> "o" [] c = "P" -> "p"
    [] c = "Q" -> "q" [] c = "R" -> "r" [] c = "S" -> "s" [] c = "T" -> "t"
    [] c = "U" -> "u" [] c = "V" -> "v" [] c = "W" -> "w" [] c = "X" -> "x"
    [] c = "Y" -> "y" [] c = "Z" -> "z" [] c = "À" -> "à" [] c = "Á" -> "á"
    [] c = "Â" -> "â" [] c = "Ã" -> "ã" [] c = "Ä" -> "ä" [] c = "Å" -> "å"
    [] c = "Æ" -> "æ" [] c = "Ç" -> "ç" [] c = "È" -> "è" [] c = "É" -> "é"
    [] c = "Ê" -> "ê" [] c = "Ë" -> "ë" [] c = "Ì" -> "ì" [] c = "Í" -> "í"
    [] c = "Î" -> "î" [] c = "Ï" -> "ï" [] c = "Ð" -> "ð" [] c = "Ñ" -> "ñ"
    [] c = "Ò" -> "ò" [] c = "Ó" -> "ó" [] c = "Ô" -> "ô" [] c = "Õ" -> "õ"
    [] c = "Ö" -> "ö" [] c = "Ø" -> "ø" [] c = "Ù" -> "ù" [] c = "Ú" -> "ú"
    [] c = "Û" -> "û" [] c = "Ü" -> "ü" [] c = "Ý" -> "ý" [] c = "Þ" -> "þ" [] OTHER -> c

\* a lower() that leaves the letters as they are
lower_Identity(s) == s

\* str.lower()
RECURSIVE lower(_)
lower(s) ==
  IF Len(s) = 0 THEN ""
  ELSE LowerChar(SubSeq(s, 1, 1)) \o lower(SubSeq(s, 2, Len(s)))

\* str.isspace() of one character, the whitespace str.strip() removes:
\* U+0009 to U+000D, U+001C to U+001F, the blank, U+0085 and U+00A0
IsSpace(c) ==
  c \in {"\t", "\n", "", "\f", "\r", "", "", "", "", " ", "", " "}

RECURSIVE lstrip(_)
lstrip(s) ==
  IF Len(s) > 0 /\ IsSpace(SubSeq(s, 1, 1)) THEN lstrip(SubSeq(s, 2, Len(s)))
  ELSE s

RECURSIVE rstrip(_)
rstrip(s) ==
  IF Len(s) > 0 /\ IsSpace(SubSeq(s, Len(s), Len(s)))
  THEN rstrip(SubSeq(s, 1, Len(s) - 1))
  ELSE s

\* a strip that leaves the trailing whitespace
strip_LeftOnly(s) == lstrip(s)

\* str.strip()
strip(s) == rstrip(lstrip(s))

\* ", ".join(items) succeeds: every item is a str (else TypeError)
Joinable(items) == \A i \in 1..Len(items) : items[i].t = "str"

\* a join that puts the items in reverse order
RECURSIVE Join_Reversed(_)
Join_Reversed(items) ==
  IF Len(items) = 0 THEN ""
  ELSE IF Len(items) = 1 THEN items[1].v
  ELSE Join_Reversed(Tail(items)) \o ", " \o items[1].v

\* ", ".join(items)
RECURSIVE Join(_)
Join(items) ==
  IF Len(items) = 0 THEN ""
  ELSE IF Len(items) = 1 THEN items[1].v
  ELSE items[1].v \o ", " \o Join(Tail(items))

\* any(w in q for w in keywords)
AnyIn(keywords, q) == \E w \in keywords : Contains(q, w)

\* repr() of a bool
PyBool(b) == IF b THEN "True" ELSE "False"

-----------------------------------------------------------------------------
(* 1-5. Configuration tables.                                              *)

\* a threshold table that lacks the DEVELOPMENT_READINESS entry
INTENT_THRESHOLDS_NoReadiness ==
     ("OBJECTIVE_INTENT" :> 70)
  @@ ("SCOPE_DEFINITION" :> 65)
  @@ ("ACCEPTANCE_CRITERIA" :> 60)
  @@ ("UI_UX_BEHAVIOUR" :> 60)
  @@ ("FIGMA_ALIGNMENT" :> 65)
  @@ ("EDGE_CASE_RISK_ANALYSIS" :> 50)
  @@ ("BUSINESS_RULE" :> 60)
  @@ ("DEPENDENCY_IMPACT" :> 55)
  @@ ("STORY_REFINEMENT" :> 50)

INTENT_THRESHOLDS ==
     ("OBJECTIVE_INTENT" :> 70)
  @@ ("SCOPE_DEFINITION" :> 65)
  @@ ("ACCEPTANCE_CRITERIA" :> 60)
  @@ ("UI_UX_BEHAVIOUR" :> 60)
  @@ ("FIGMA_ALIGNMENT" :> 65)
  @@ ("EDGE_CASE_RISK_ANALYSIS" :> 50)
  @@ ("BUSINESS_RULE" :> 60)
  @@ ("DEPENDENCY_IMPACT" :> 55)
  @@ ("STORY_REFINEMENT" :> 50)
  @@ ("DEVELOPMENT_READINESS" :> 60)

CLARIFYING_QUESTIONS ==
     ("OBJECTIVE_INTENT" :>
        "I need a bit more clarity. Could you specify:\n- What business goal does this feature support?\n- Who are the primary users?\n- What problem does this solve?")
  @@ ("SCOPE_DEFINITION" :>
        "To define the scope clearly, please clarify:\n- What functionality is included?\n- What is explicitly out of scope?\n- Are there any phase requirements?")
  @@ ("ACCEPTANCE_CRITERIA" :>
        "To create clear acceptance criteria, I need:\n- What are the specific conditions to be met?\n- What are the expected outcomes?\n- Are there UI/UX or data validation requirements?")
  @@ ("UI_UX_BEHAVIOUR" :>
        "For UI/UX behavior, please specify:\n- What user actions trigger this behavior?\n- What visual feedback should users see?\n- Are there error or loading states?")
  @@ ("FIGMA_ALIGNMENT" :>
        "To ensure Figma alignment, I need:\n- Which Figma design/mockup should be referenced?\n- Are there specific components or flows to validate?\n- Are there any design system requirements?")
  @@ ("EDGE_CASE_RISK_ANALYSIS" :>
        "For edge case analysis, help me understand:\n- What are the expected normal conditions?\n- What unusual inputs or scenarios concern you?\n- Are there integration or data quality risks?")
  @@ ("BUSINESS_RULE" :>
        "To extract business rules clearly:\n- What conditions must be met?\n- What are the validation requirements?\n- Are there any exceptions or special cases?")
  @@ ("DEPENDENCY_IMPACT" :>
        "To identify dependencies, clarify:\n- What other systems or features are affected?\n- Are there API or data dependencies?\n- What's the impact on existing functionality?")
  @@ ("STORY_REFINEMENT" :>
        "To refine this story, I need more context:\n- What aspect needs refinement (clarity, completeness, readiness)?\n- Are there specific concerns or gaps?\n- What level of detail is needed?")
  @@ ("DEVELOPMENT_READINESS" :>
        "To assess development readiness:\n- Have all dependencies been identified?\n- Are acceptance criteria defined?\n- Are there any open questions or blockers?")

MASTER_PROMPT ==
  "\nYou are a Senior Business Analyst, Product Owner, and Jira Coach assistant.\n\nYour role is to help refine Jira tickets by analysing:\n- Business intent\n- Functional scope\n- UI/UX behaviour (including Figma expectations)\n- Acceptance criteria\n- Edge cases, risks, and dependencies\n\nRules:\n- Understand the user's intent first.\n- Adapt response style based on the question.\n- Do NOT assume missing requirements.\n- Clearly list assumptions when information is missing.\n- Ask clarification questions when needed.\n- Provide Jira-ready, practical outputs.\n\nYou are a thinking partner, not a decision authority.\n"

MODE_PROMPTS ==
     ("OBJECTIVE_INTENT" :>
        "Explain the objective and business purpose.\nFocus on: WHY this feature exists, WHO benefits, and WHAT problem it solves.")
  @@ ("SCOPE_DEFINITION" :>
        "Define in-scope and out-of-scope items.\nStructure: IN SCOPE (what's included), OUT OF SCOPE (what's excluded), ASSUMPTIONS (what's assumed but unconfirmed).")
  @@ ("ACCEPTANCE_CRITERIA" :>
        "Generate clear Given/When/Then acceptance criteria.\n\nTemplate:\n- GIVEN [precondition/context]\n- WHEN [action/trigger]\n- THEN [expected outcome]\n\nExample:\n- GIVEN a user is on the login page\n- WHEN they enter valid credentials and click 'Login'\n- THEN they should be redirected to the dashboard")
  @@ ("UI_UX_BEHAVIOUR" :>
        "Describe expected UI behaviour and states.\nInclude: Default state, Loading state, Success state, Error state, Edge cases (empty, disabled, etc.)")
  @@ ("FIGMA_ALIGNMENT" :>
        "List Figma design checks for alignment.\nVerify: Component spacing, Typography, Colors, Icons, Interaction states (hover, active, disabled), Responsive behavior")
  @@ ("EDGE_CASE_RISK_ANALYSIS" :>
        "Identify edge cases and risks.\nConsider: Invalid inputs, Boundary conditions, System failures, Integration issues, Performance constraints, Security vulnerabilities")
  @@ ("BUSINESS_RULE" :>
        "Extract business rules.\nFormat: IF [condition] THEN [action/outcome] ELSE [alternative]")
  @@ ("DEPENDENCY_IMPACT" :>
        "Identify dependencies and impacts.\nCategories: System dependencies, Data dependencies, Feature dependencies, API dependencies, Impact on existing features")
  @@ ("STORY_REFINEMENT" :>
        "Improve clarity and readiness of the requirement.\nCheck: Clear objective, Defined scope, Acceptance criteria, Dependencies identified, Assumptions documented")
  @@ ("DEVELOPMENT_READINESS" :>
        "Assess if ready for development and list gaps.\nChecklist: [v]/[x] Clear requirements, [v]/[x] Acceptance criteria defined, [v]/[x] Dependencies identified, [v]/[x] Designs available, [v]/[x] Technical approach agreed")

-----------------------------------------------------------------------------
(* 6. Context extraction.                                                  *)

extract_context(question) ==
  LET q == lower(question) IN
  << <<"ui_related",
       AnyIn({"button", "screen", "click", "field", "page", "form", "input",
              "modal", "popup"}, q)>>,
     <<"mentions_figma",
       Contains(q, "figma") \/ Contains(q, "mockup")
         \/ Contains(q, "design mockup") \/ Contains(q, "ui design")>>,
     <<"mentions_scope",
       Contains(q, "scope") \/ Contains(q, "in-scope")
         \/ Contains(q, "out of scope")>>,
     <<"mentions_ac", AnyIn({"acceptance", "ac", "criteria"}, q)>>,
     <<"mentions_ready", AnyIn({"ready", "sprint", "development"}, q)>>,
     <<"mentions_edge_cases",
       AnyIn({"edge", "risk", "error", "failure", "exception"}, q)>>,
     <<"mentions_business_rules",
       AnyIn({"rule", "validation", "condition"}, q)
         \/ Contains(q, "if then") \/ Contains(q, "if-then")>>,
     <<"has_question_words",
       AnyIn({"what", "why", "how", "when", "where", "who"}, q)>> >>

-----------------------------------------------------------------------------
(* 7. Response style detection.                                            *)

\* a detector whose structured keywords lack "scope"
detect_response_style_NoScope(question) ==
  LET q == lower(question) IN
  IF AnyIn({"just explain", "in simple terms", "what is", "why",
            "help me understand"}, q)
  THEN "CONVERSATIONAL"
  ELSE IF AnyIn({"acceptance", "ready", "criteria", "list", "define"}, q)
  THEN "STRUCTURED"
  ELSE "HYBRID"

\* a detector that tests the structured keywords first
detect_response_style_StructuredFirst(question) ==
  LET q == lower(question) IN
  IF AnyIn({"acceptance", "scope", "ready", "criteria", "list",
            "define"}, q)
  THEN "STRUCTURED"
  ELSE IF AnyIn({"just explain", "in simple terms", "what is", "why",
                 "help me understand"}, q)
  THEN "CONVERSATIONAL"
  ELSE "HYBRID"

detect_response_style(question) ==
  LET q == lower(question) IN
  IF AnyIn({"just explain", "in simple terms", "what is", "why",
            "help me understand"}, q)
  THEN "CONVERSATIONAL"
  ELSE IF AnyIn({"acceptance", "scope", "ready", "criteria", "list",
                 "define"}, q)
  THEN "STRUCTURED"
  ELSE "HYBRID"

-----------------------------------------------------------------------------
(* 8. Intent classification.                                               *)

\* The exception classes a capability raises.  JSONDecodeError is a subclass
\* of ValueError, which is a subclass of Exception.
ExceptionClasses == {"Exception", "ValueError", "JSONDecodeError"}

\* "except json.JSONDecodeError" takes the exception
IsJSONDecodeError(exc) == exc = "JSONDecodeError"

\* intent_data before step 3 has assigned it
NoClassification == [primary |-> Null, secondary |-> Null, confidence |-> Null]

\* a dict of the except clauses that carries a confidence 0.3 higher
DegradedResult_Confident(confidence) ==
  [primary |-> Str("STORY_REFINEMENT"), secondary |-> List(<<>>),
   confidence |-> Num(confidence + 30)]

\* the dict of the two except clauses, but for its confidence
DegradedResult(confidence) ==
  [primary |-> Str("STORY_REFINEMENT"), secondary |-> List(<<>>),
   confidence |-> Num(confidence)]

\* data.get(key, default) on what json.loads returned
DataGet(data, key, default) ==
  IF key \in DOMAIN data.v THEN data.v[key] ELSE default

\* the dict built from the parsed object, each key with its own default
ClassificationOf(data) ==
  [primary |-> DataGet(data, "primary_intent", Str("STORY_REFINEMENT")),
   secondary |-> DataGet(data, "secondary_intents", List(<<>>)),
   confidence |-> DataGet(data, "confidence", Num(50))]

\* classify_intent(llm_classifier, question), for a classifier that behaves
\* as beh says.  The result is [raised, exc, value]: either the exception
\* that leaves classify_intent or the dict it returns.
classify_intent(beh) ==
  IF beh.kind = "raise"
  THEN IF IsJSONDecodeError(beh.exc)
       \* first except clause: response[:200] reads a local that was never
       \* bound, and the UnboundLocalError leaves the function
       THEN [raised |-> TRUE, exc |-> "UnboundLocalError",
             value |-> NoClassification]
       ELSE [raised |-> FALSE, exc |-> "", value |-> DegradedResult(30)]
  ELSE IF ~beh.json.ok
  \* json.loads raised JSONDecodeError; response is bound here
  THEN [raised |-> FALSE, exc |-> "", value |-> DegradedResult(40)]
  ELSE IF beh.json.value.t # "obj"
  \* data.get: AttributeError, taken by "except Exception"
  THEN [raised |-> FALSE, exc |-> "", value |-> DegradedResult(30)]
  ELSE LET result == ClassificationOf(beh.json.value)
       IN IF FormatsAsFloat(result.confidence)
          THEN [raised |-> FALSE, exc |-> "", value |-> result]
          \* the f-string of logger.info raises, taken by "except Exception"
          ELSE [raised |-> FALSE, exc |-> "", value |-> DegradedResult(30)]

-----------------------------------------------------------------------------
(* 9. Assumption gate.                                                     *)

\* context.get(flag, False)
ContextGet(ctx, flag) ==
  IF flag \in DictKeys(ctx) THEN DictItem(ctx, flag) ELSE FALSE

\* a gate that reads the Figma flag for SCOPE_DEFINITION as well
assumption_gate_WrongFlag(intent, ctx) ==
  IF intent \in {Str("ACCEPTANCE_CRITERIA"), Str("DEVELOPMENT_READINESS")}
  THEN ~ContextGet(ctx, "ui_related")
  ELSE IF intent = Str("FIGMA_ALIGNMENT")
  THEN ~ContextGet(ctx, "mentions_figma")
  ELSE IF intent = Str("SCOPE_DEFINITION")
  THEN ~ContextGet(ctx, "mentions_figma")
  ELSE FALSE

\* a gate that asks for assumptions on every FIGMA_ALIGNMENT question
assumption_gate_FigmaAlways(intent, ctx) ==
  IF intent \in {Str("ACCEPTANCE_CRITERIA"), Str("DEVELOPMENT_READINESS")}
  THEN ~ContextGet(ctx, "ui_related")
  ELSE IF intent = Str("FIGMA_ALIGNMENT")
  THEN TRUE
  ELSE IF intent = Str("SCOPE_DEFINITION")
  THEN ~ContextGet(ctx, "mentions_scope")
  ELSE FALSE

assumption_gate(intent, ctx) ==
  IF intent \in {Str("ACCEPTANCE_CRITERIA"), Str("DEVELOPMENT_READINESS")}
  THEN ~ContextGet(ctx, "ui_related")
  ELSE IF intent = Str("FIGMA_ALIGNMENT")
  THEN ~ContextGet(ctx, "mentions_figma")
  ELSE IF intent = Str("SCOPE_DEFINITION")
  THEN ~ContextGet(ctx, "mentions_scope")
  ELSE FALSE

-----------------------------------------------------------------------------
(* 10. Final prompt composer.                                              *)

ASSUMPTION_INSTRUCTION ==
  "\nIf information is missing:\n- List assumptions explicitly\n- Ask clarification questions\n"

FIGMA_INSTRUCTION ==
  "\n(!) IMPORTANT: User mentioned Figma. Emphasize design alignment checks and verify against Figma mockups."

UI_INSTRUCTION ==
  "\n(!) NOTE: This is UI-related. Consider suggesting Figma validation if designs exist."

EDGE_INSTRUCTION ==
  "\n(!) FOCUS: User is concerned about edge cases. Provide comprehensive risk analysis."

\* the keys of a context in the order extract_context inserts them
ContextKeys ==
  <<"ui_related", "mentions_figma", "mentions_scope", "mentions_ac",
    "mentions_ready", "mentions_edge_cases", "mentions_business_rules",
    "has_question_words">>

\* the items "'key': value" of the dict from its i-th item on
RECURSIVE ContextItems(_, _)
ContextItems(ctx, i) ==
  IF i > Len(ctx) THEN ""
  ELSE "'" \o ctx[i][1] \o "': " \o PyBool(ctx[i][2])
         \o (IF i < Len(ctx) THEN ", " ELSE "")
         \o ContextItems(ctx, i + 1)

\* str(context): the items of the dict in insertion order
ContextRepr(ctx) == "{" \o ContextItems(ctx, 1) \o "}"

\* a composer that puts the question before the context dump
compose_final_prompt_QuestionFirst(master, mode_prompt, question, ctx, stl, require_assumptions) ==
  LET assumption_instruction ==
        IF require_assumptions THEN ASSUMPTION_INSTRUCTION ELSE ""
      ci1 == IF ContextGet(ctx, "mentions_figma")
             THEN FIGMA_INSTRUCTION ELSE ""
      ci2 == IF ContextGet(ctx, "ui_related")
                  /\ ~ContextGet(ctx, "mentions_figma")
             THEN ci1 \o UI_INSTRUCTION ELSE ci1
      context_instructions ==
        IF ContextGet(ctx, "mentions_edge_cases")
        THEN ci2 \o EDGE_INSTRUCTION ELSE ci2
  IN "\n" \o master \o "\n\nResponse Style: " \o stl \o "\n\nTask:\n"
       \o mode_prompt \o "\n\n" \o assumption_instruction \o "\n"
       \o context_instructions \o "\n\nUser Question:\n" \o question
       \o "\n\nContext Extracted:\n" \o ContextRepr(ctx) \o "\n"

\* a composer that always adds the assumption block
compose_final_prompt_AlwaysAssume(master, mode_prompt, question, ctx, stl, require_assumptions) ==
  LET assumption_instruction == ASSUMPTION_INSTRUCTION
      ci1 == IF ContextGet(ctx, "mentions_figma")
             THEN FIGMA_INSTRUCTION ELSE ""
      ci2 == IF ContextGet(ctx, "ui_related")
                  /\ ~ContextGet(ctx, "mentions_figma")
             THEN ci1 \o UI_INSTRUCTION ELSE ci1
      context_instructions ==
        IF ContextGet(ctx, "mentions_edge_cases")
        THEN ci2 \o EDGE_INSTRUCTION ELSE ci2
  IN "\n" \o master \o "\n\nResponse Style: " \o stl \o "\n\nTask:\n"
       \o mode_prompt \o "\n\n" \o assumption_instruction \o "\n"
       \o context_instructions \o "\n\nContext Extracted:\n"
       \o ContextRepr(ctx) \o "\n\nUser Question:\n" \o question \o "\n"

\* a composer that adds the UI suggestion whenever the question is UI-related
compose_final_prompt_UiAlways(master, mode_prompt, question, ctx, stl, require_assumptions) ==
  LET assumption_instruction ==
        IF require_assumptions THEN ASSUMPTION_INSTRUCTION ELSE ""
      ci1 == IF ContextGet(ctx, "mentions_figma")
             THEN FIGMA_INSTRUCTION ELSE ""
      ci2 == IF ContextGet(ctx, "ui_related")
             THEN ci1 \o UI_INSTRUCTION ELSE ci1
      context_instructions ==
        IF ContextGet(ctx, "mentions_edge_cases")
        THEN ci2 \o EDGE_INSTRUCTION ELSE ci2
  IN "\n" \o master \o "\n\nResponse Style: " \o stl \o "\n\nTask:\n"
       \o mode_prompt \o "\n\n" \o assumption_instruction \o "\n"
       \o context_instructions \o "\n\nContext Extracted:\n"
       \o ContextRepr(ctx) \o "\n\nUser Question:\n" \o question \o "\n"

compose_final_prompt(master, mode_prompt, question, ctx, stl, require_assumptions) ==
  LET assumption_instruction ==
        IF require_assumptions THEN ASSUMPTION_INSTRUCTION ELSE ""
      ci1 == IF ContextGet(ctx, "mentions_figma")
             THEN FIGMA_INSTRUCTION ELSE ""
      ci2 == IF ContextGet(ctx, "ui_related")
                  /\ ~ContextGet(ctx, "mentions_figma")
             THEN ci1 \o UI_INSTRUCTION ELSE ci1
      context_instructions ==
        IF ContextGet(ctx, "mentions_edge_cases")
        THEN ci2 \o EDGE_INSTRUCTION ELSE ci2
  IN "\n" \o master \o "\n\nResponse Style: " \o stl \o "\n\nTask:\n"
       \o mode_prompt \o "\n\n" \o assumption_instruction \o "\n"
       \o context_instructions \o "\n\nContext Extracted:\n"
       \o ContextRepr(ctx) \o "\n\nUser Question:\n" \o question \o "\n"

-----------------------------------------------------------------------------
(* 11. Main response generation.                                           *)

GENERATION_APOLOGY ==
  "I apologize, but I encountered an error generating the response. Please try rephrasing your question or contact support if the issue persists."

\* generate_response(llm_main, prompt), for a generator that behaves as beh
\* says: its text, or the apology when it raises
generate_response(beh) ==
  IF beh.kind = "raise" THEN GENERATION_APOLOGY ELSE beh.text

-----------------------------------------------------------------------------
(* 12. Orchestrator: the pieces of jira_refinement_copilot_v2.             *)

PIPELINE_APOLOGY ==
  "I apologize, but I encountered an unexpected error processing your request. Please try rephrasing your question or contact support if the issue persists."

SECONDARY_OFFER == "\n\nWould you also like help with: "

\* INTENT_THRESHOLDS.get(primary_intent, 0.6)
ThresholdOf(primary) == DictGet(INTENT_THRESHOLDS, primary, 60)

\* a test that also sends a confidence equal to the threshold to clarification
BelowThreshold_Inclusive(confidence, thr) == confidence <= thr

\* the test of step 4: confidence < threshold
BelowThreshold(confidence, thr) == confidence < thr

\* a lookup that asks the STORY_REFINEMENT question whatever the primary
ClarifyingQuestionOf_Generic(primary) ==
  CLARIFYING_QUESTIONS["STORY_REFINEMENT"]

\* CLARIFYING_QUESTIONS.get(primary_intent,
\*                          CLARIFYING_QUESTIONS["STORY_REFINEMENT"])
ClarifyingQuestionOf(primary) ==
  DictGet(CLARIFYING_QUESTIONS, primary,
          CLARIFYING_QUESTIONS["STORY_REFINEMENT"])

\* a lookup that falls back on the first template of the table
ModePromptOf_FirstEntry(primary) ==
  DictGet(MODE_PROMPTS, primary, MODE_PROMPTS["OBJECTIVE_INTENT"])

\* MODE_PROMPTS.get(primary_intent, MODE_PROMPTS["STORY_REFINEMENT"])
ModePromptOf(primary) ==
  DictGet(MODE_PROMPTS, primary, MODE_PROMPTS["STORY_REFINEMENT"])

\* a step 8 that puts the offer of the secondary intents before the response
OfferSecondary_Prefixed(resp, secondary) ==
  IF Truthy(secondary)
  THEN SECONDARY_OFFER \o Join(secondary.v) \o "?" \o resp
  ELSE resp

\* step 8: the response with the offer of the secondary intents
OfferSecondary(resp, secondary) ==
  IF Truthy(secondary)
  THEN resp \o SECONDARY_OFFER \o Join(secondary.v) \o "?"
  ELSE resp

-----------------------------------------------------------------------------
(* The inputs of an invocation.                                            *)

Intents ==
  {"OBJECTIVE_INTENT", "SCOPE_DEFINITION", "ACCEPTANCE_CRITERIA",
   "UI_UX_BEHAVIOUR", "FIGMA_ALIGNMENT", "EDGE_CASE_RISK_ANALYSIS",
   "BUSINESS_RULE", "DEPENDENCY_IMPACT", "STORY_REFINEMENT",
   "DEVELOPMENT_READINESS"}

\* a name a classifier may invent, outside the ten
UnknownIntent == "RELEASE_PLANNING"

Questions ==
  {"Tell me about the button",
   "Does the submit button match the Figma design?",
   "What is the objective of the forgot password submit button?",
   "Define the SCOPE of the export",
   "Check the Figma mockup for the error popup"}

\* marks a key the classifier's object does not carry
Absent == [t |-> "absent"]

\* what a classifier may put under primary_intent: a name, null, a list or
\* an object
PrimaryValues ==
  {Str(n) : n \in Intents \cup {UnknownIntent}}
    \cup {Null, List(<<>>), [t |-> "obj", v |-> <<>>]}

\* confidences in hundredths: each threshold of the table, values around
\* them and values outside [0, 1]
ConfidenceNumbers == {-10, 45, 50, 55, 60, 65, 70, 90, 150}

ConfidenceValues ==
  {Num(c) : c \in ConfidenceNumbers} \cup {Str("high"), Bool(TRUE), Bool(FALSE)}

SecondaryNames == {"SCOPE_DEFINITION", "UI_UX_BEHAVIOUR"}

SecondaryLists ==
  UNION {[1..k -> {Str(n) : n \in SecondaryNames}] : k \in 0..MaxSecondary}

SecondaryValues ==
  {List(q) : q \in SecondaryLists} \cup {Null, List(<<Num(1)>>)}

\* the JSON object with the given members; Absent leaves the key out
JsonObject(p, s, c, x) ==
  LET member(k) == CASE k = "primary_intent" -> p
                     [] k = "secondary_intents" -> s
                     [] k = "confidence" -> c
                     [] k = "reasoning" -> x
      keys == {k \in {"primary_intent", "secondary_intents", "confidence",
                      "reasoning"} : member(k) # Absent}
  IN [t |-> "obj", v |-> [k \in keys |-> member(k)]]

JsonObjects ==
  {JsonObject(p, s, c, x) :
     p \in PrimaryValues \cup {Absent},
     s \in SecondaryValues \cup {Absent},
     c \in ConfidenceValues \cup {Absent},
     x \in {Str("because"), Absent}}

\* what json.loads makes of the text a classifier returns
JsonTexts ==
  {[ok |-> FALSE, value |-> Null]}
    \cup {[ok |-> TRUE, value |-> v] :
            v \in {Null, Num(5), List(<<>>)} \cup JsonObjects}

ClassifierBehaviours ==
  {[kind |-> "raise", exc |-> e, json |-> [ok |-> FALSE, value |-> Null]] :
     e \in ExceptionClasses}
    \cup {[kind |-> "return", exc |-> "", json |-> j] : j \in JsonTexts}

GeneratorTexts ==
  {"Objective: The submit button initiates a secure password recovery flow.",
   "\f\n  1. **Scope**: in scope is the export.\n- CSV only \n\f"}

GeneratorBehaviours ==
  {[kind |-> "raise", exc |-> e, text |-> ""] : e \in {"Exception"}}
    \cup {[kind |-> "return", exc |-> "", text |-> x] : x \in GeneratorTexts}

NoBehaviour == [kind |-> "none", exc |-> "", text |-> ""]
NoContext == <<<<"ui_related", FALSE>>>>

\* the orchestrator has not been run
NoRun == [llm_classifier |-> NoBehaviour, llm_main |-> NoBehaviour,
          result |-> [returned |-> "", path |-> "none", generated |-> FALSE,
                      prompt |-> ""]]

-----------------------------------------------------------------------------
(* The invocation as a state machine.                                      *)

PipeInit ==
  /\ pc = "idle"
  /\ user_question = ""
  /\ context = NoContext
  /\ style = ""
  /\ intent_data = NoClassification
  /\ threshold = 0
  /\ needs_assumptions = FALSE
  /\ final_prompt = ""
  /\ response = ""
  /\ returned = ""
  /\ raised = FALSE
  /\ path = "none"
  /\ cls_beh = NoBehaviour
  /\ gen_beh = NoBehaviour
  /\ classifier_calls = 0
  /\ generator_calls = 0
  /\ prompt_seen = ""

AgIdle ==
  /\ ag_pc = "off"
  /\ ag_intent = Null
  /\ ag_context = NoContext
  /\ ag_result = FALSE

\* the stand-alone calls of the question functions and of the composer are
\* not in progress
UqIdle ==
  /\ uq_pc = "off"
  /\ uq_words = <<>>
  /\ uq_question = ""
  /\ uq_context = NoContext
  /\ uq_style = ""
  /\ uq_run = NoRun

CpIdle ==
  /\ cp_pc = "off"
  /\ cp_args = [question |-> ""]
  /\ cp_prompt = ""

UnitIdle == UqIdle /\ CpIdle

\* no interleaved invocations are under way
IvIdle ==
  /\ iv_frames = <<>>
  /\ iv_tables = <<>>
  /\ iv_returns = 0

Init == PipeInit /\ AgIdle /\ UnitIdle /\ IvIdle

\* the caller invokes jira_refinement_copilot_v2(llm_classifier, llm_main, q)
Start ==
  /\ pc = "idle"
  /\ \E q \in Questions : user_question' = q
  /\ pc' = "extract"
  /\ UNCHANGED <<context, style, intent_data, threshold, needs_assumptions,
                 final_prompt, response, returned, raised, path, cls_beh,
                 gen_beh, classifier_calls, generator_calls, prompt_seen>>
  /\ UNCHANGED <<agVars, unitVars, ivVars>>

\* step 1
ExtractContext ==
  /\ pc = "extract"
  /\ context' = extract_context(user_question)
  /\ pc' = "style"
  /\ UNCHANGED <<user_question, style, intent_data, threshold,
                 needs_assumptions, final_prompt, response, returned, raised,
                 path, cls_beh, gen_beh, classifier_calls, generator_calls,
                 prompt_seen>>
  /\ UNCHANGED <<agVars, unitVars, ivVars>>

\* a step 2 that goes on to the classifier without having detected the style
DetectStyle_Deferred ==
  /\ pc = "style"
  /\ pc' = "classify"
  /\ UNCHANGED <<user_question, context, style, intent_data, threshold,
                 needs_assumptions, final_prompt, response, returned, raised,
                 path, cls_beh, gen_beh, classifier_calls, generator_calls,
                 prompt_seen>>
  /\ UNCHANGED <<agVars, unitVars, ivVars>>

\* step 2
DetectStyle ==
  /\ pc = "style"
  /\ style' = detect_response_style(user_question)
  /\ pc' = "classify"
  /\ UNCHANGED <<user_question, context, intent_data, threshold,
                 needs_assumptions, final_prompt, response, returned, raised,
                 path, cls_beh, gen_beh, classifier_calls, generator_calls,
                 prompt_seen>>
  /\ UNCHANGED <<agVars, unitVars, ivVars>>

\* an orchestrator without its except clause: the exception reaches the caller
PipelineFailed_Propagates ==
  /\ pc' = "done"
  /\ returned' = ""
  /\ raised' = TRUE
  /\ path' = "error"

\* the except clause of the orchestrator: the apology is returned
PipelineFailed ==
  /\ pc' = "done"
  /\ returned' = PIPELINE_APOLOGY
  /\ raised' = FALSE
  /\ path' = "error"

\* step 3: llm_classifier is called once and behaves as beh says
ClassifyIntent ==
  /\ pc = "classify"
  /\ \E beh \in ClassifierBehaviours :
       LET r == classify_intent(beh) IN
       /\ cls_beh' = beh
       /\ classifier_calls' = classifier_calls + 1
       /\ IF r.raised
          THEN /\ PipelineFailed
               /\ UNCHANGED intent_data
          ELSE /\ intent_data' = r.value
               /\ pc' = "threshold"
               /\ UNCHANGED <<returned, raised, path>>
  /\ UNCHANGED <<user_question, context, style, threshold, needs_assumptions,
                 final_prompt, response, gen_beh, generator_calls,
                 prompt_seen>>
  /\ UNCHANGED <<agVars, unitVars, ivVars>>

\* step 4: the dynamic threshold check
ThresholdCheck ==
  /\ pc = "threshold"
  /\ IF ~Hashable(intent_data.primary)
     \* INTENT_THRESHOLDS.get raises TypeError
     THEN /\ PipelineFailed
          /\ UNCHANGED threshold
     ELSE /\ threshold' = ThresholdOf(intent_data.primary)
          /\ IF BelowThreshold(NumberOf(intent_data.confidence),
                               ThresholdOf(intent_data.primary))
             THEN /\ pc' = "done"
                  /\ returned' = ClarifyingQuestionOf(intent_data.primary)
                  /\ path' = "clarify"
                  /\ UNCHANGED raised
             ELSE /\ pc' = "assumption"
                  /\ UNCHANGED <<returned, raised, path>>
  /\ UNCHANGED <<user_question, context, style, intent_data,
                 needs_assumptions, final_prompt, response, cls_beh, gen_beh,
                 classifier_calls, generator_calls, prompt_seen>>
  /\ UNCHANGED <<agVars, unitVars, ivVars>>

\* step 5
AssumptionGate ==
  /\ pc = "assumption"
  /\ needs_assumptions' = assumption_gate(intent_data.primary, context)
  /\ pc' = "compose"
  /\ UNCHANGED <<user_question, context, style, intent_data, threshold,
                 final_prompt, response, returned, raised, path, cls_beh,
                 gen_beh, classifier_calls, generator_calls, prompt_seen>>
  /\ UNCHANGED <<agVars, unitVars, ivVars>>

\* step 6
ComposePrompt ==
  /\ pc = "compose"
  /\ final_prompt' =
       compose_final_prompt(MASTER_PROMPT, ModePromptOf(intent_data.primary),
                            user_question, context, style, needs_assumptions)
  /\ pc' = "generate"
  /\ UNCHANGED <<user_question, context, style, intent_data, threshold,
                 needs_assumptions, response, returned, raised, path,
                 cls_beh, gen_beh, classifier_calls, generator_calls,
                 prompt_seen>>
  /\ UNCHANGED <<agVars, unitVars, ivVars>>

\* a step 7 that calls llm_main a second time when the first call raises
GenerateResponse_Retry ==
  /\ pc = "generate"
  /\ \E beh \in GeneratorBehaviours :
       /\ gen_beh' = beh
       /\ response' = strip(generate_response(beh))
       /\ generator_calls' =
            generator_calls + (IF beh.kind = "raise" THEN 2 ELSE 1)
  /\ prompt_seen' = final_prompt
  /\ pc' = "secondary"
  /\ UNCHANGED <<user_question, context, style, intent_data, threshold,
                 needs_assumptions, final_prompt, returned, raised, path,
                 cls_beh, classifier_calls>>
  /\ UNCHANGED <<agVars, unitVars, ivVars>>

\* step 7: llm_main is called once and behaves as beh says; the text
\* generate_response returns is stripped
GenerateResponse ==
  /\ pc = "generate"
  /\ \E beh \in GeneratorBehaviours :
       /\ gen_beh' = beh
       /\ response' = strip(generate_response(beh))
  /\ generator_calls' = generator_calls + 1
  /\ prompt_seen' = final_prompt
  /\ pc' = "secondary"
  /\ UNCHANGED <<user_question, context, style, intent_data, threshold,
                 needs_assumptions, final_prompt, returned, raised, path,
                 cls_beh, classifier_calls>>
  /\ UNCHANGED <<agVars, unitVars, ivVars>>

\* step 8: the secondary intents are offered and the response is returned
AnnotateSecondary ==
  /\ pc = "secondary"
  /\ IF Truthy(intent_data.secondary) /\ ~Joinable(intent_data.secondary.v)
     \* ", ".join raises TypeError
     THEN /\ PipelineFailed
          /\ UNCHANGED response
     ELSE /\ response' = OfferSecondary(response, intent_data.secondary)
          /\ returned' = OfferSecondary(response, intent_data.secondary)
          /\ pc' = "done"
          /\ path' = "answer"
          /\ UNCHANGED raised
  /\ UNCHANGED <<user_question, context, style, intent_data, threshold,
                 needs_assumptions, final_prompt, cls_beh, gen_beh,
                 classifier_calls, generator_calls, prompt_seen>>
  /\ UNCHANGED <<agVars, unitVars, ivVars>>

\* the call has returned: its locals are gone and the caller may call again
Return ==
  /\ pc = "done"
  /\ pc' = "idle"
  /\ user_question' = ""
  /\ context' = NoContext
  /\ style' = ""
  /\ intent_data' = NoClassification
  /\ threshold' = 0
  /\ needs_assumptions' = FALSE
  /\ final_prompt' = ""
  /\ response' = ""
  /\ returned' = ""
  /\ raised' = FALSE
  /\ path' = "none"
  /\ cls_beh' = NoBehaviour
  /\ gen_beh' = NoBehaviour
  /\ classifier_calls' = 0
  /\ generator_calls' = 0
  /\ prompt_seen' = ""
  /\ UNCHANGED <<agVars, unitVars, ivVars>>

Next ==
  \/ Start
  \/ ExtractContext
  \/ DetectStyle
  \/ ClassifyIntent
  \/ ThresholdCheck
  \/ AssumptionGate
  \/ ComposePrompt
  \/ GenerateResponse
  \/ AnnotateSecondary
  \/ Return

Spec == Init /\ [][Next]_vars

\* jira_refinement_copilot_v2 run alone, from its call to its return: what
\* it returns, the prompt it hands to llm_main and whether it calls it
RunAlone(llm_classifier, llm_main, question) ==
  LET r == classify_intent(llm_classifier)
      d == r.value
      ctx == extract_context(question)
      prompt ==
        compose_final_prompt(MASTER_PROMPT, ModePromptOf(d.primary), question,
                             ctx, detect_response_style(question),
                             assumption_gate(d.primary, ctx))
      resp == strip(generate_response(llm_main))
      stopped(how, text) ==
        [returned |-> text, path |-> how, generated |-> FALSE, prompt |-> ""]
  IN IF r.raised THEN stopped("error", PIPELINE_APOLOGY)
     ELSE IF ~Hashable(d.primary) THEN stopped("error", PIPELINE_APOLOGY)
     ELSE IF BelowThreshold(NumberOf(d.confidence), ThresholdOf(d.primary))
     THEN stopped("clarify", ClarifyingQuestionOf(d.primary))
     ELSE IF Truthy(d.secondary) /\ ~Joinable(d.secondary.v)
     THEN [returned |-> PIPELINE_APOLOGY, path |-> "error",
           generated |-> TRUE, prompt |-> prompt]
     ELSE [returned |-> OfferSecondary(resp, d.secondary), path |-> "answer",
           generated |-> TRUE, prompt |-> prompt]

-----------------------------------------------------------------------------
(* assumption_gate called on its own, as the unit tests call it: any intent *)
(* and any dict for a context, flags missing or present, inserted in any   *)
(* order.                                                                  *)

AgFlags == {"ui_related", "mentions_figma", "mentions_scope",
            "mentions_edge_cases"}

AgContexts == OrderedDicts(AgFlags)

AgIntents == {Str(n) : n \in Intents \cup {UnknownIntent}} \cup {Null}

AgInit ==
  /\ PipeInit
  /\ UnitIdle
  /\ IvIdle
  /\ ag_pc = "ready"
  /\ ag_intent \in AgIntents
  /\ ag_context \in AgContexts
  /\ ag_result = FALSE

AgCall ==
  /\ ag_pc = "ready"
  /\ ag_result' = assumption_gate(ag_intent, ag_context)
  /\ ag_pc' = "returned"
  /\ UNCHANGED <<ag_intent, ag_context>>
  /\ UNCHANGED <<pipeVars, unitVars, ivVars>>

AgNext == AgCall

SpecAssumptionGate == AgInit /\ [][AgNext]_vars

-----------------------------------------------------------------------------
(* extract_context and detect_response_style called on their own, as the   *)
(* unit tests call them.  A question is a run of phrases separated by one  *)
(* blank; each phrase is kept with its lower-case spelling.                *)

QuestionPhrases ==
  {[text |-> "Why", low |-> "why"],
   [text |-> "WHAT IS", low |-> "what is"],
   [text |-> "Just explain", low |-> "just explain"],
   [text |-> "List", low |-> "list"],
   [text |-> "Scope", low |-> "scope"],
   [text |-> "out of scope", low |-> "out of scope"],
   [text |-> "Acceptance Criteria", low |-> "acceptance criteria"],
   [text |-> "AC", low |-> "ac"],
   [text |-> "ready", low |-> "ready"],
   [text |-> "button", low |-> "button"],
   [text |-> "Figma", low |-> "figma"],
   [text |-> "UI", low |-> "ui"],
   [text |-> "design", low |-> "design"],
   [text |-> "Edge", low |-> "edge"],
   [text |-> "rule", low |-> "rule"],
   [text |-> "if", low |-> "if"],
   [text |-> "then", low |-> "then"],
   [text |-> "How", low |-> "how"],
   [text |-> "performance", low |-> "performance"],
   [text |-> "tell me about the", low |-> "tell me about the"],
   [text |-> "ÉCRAN", low |-> "écran"]}

PhraseRuns == UNION {[1..k -> QuestionPhrases] : k \in 0..MaxPhrases}

\* the question a run of phrases spells
RECURSIVE TextOf(_)
TextOf(ws) ==
  IF Len(ws) = 0 THEN ""
  ELSE IF Len(ws) = 1 THEN ws[1].text
  ELSE ws[1].text \o " " \o TextOf(Tail(ws))

UqInit ==
  /\ PipeInit
  /\ AgIdle
  /\ CpIdle
  /\ IvIdle
  /\ uq_pc = "ready"
  /\ uq_words \in PhraseRuns
  /\ uq_question = TextOf(uq_words)
  /\ uq_context = NoContext
  /\ uq_style = ""
  /\ uq_run = NoRun

UqExtract ==
  /\ uq_pc = "ready"
  /\ uq_context' = extract_context(uq_question)
  /\ uq_pc' = "extracted"
  /\ UNCHANGED <<uq_words, uq_question, uq_style, uq_run, cp_pc, cp_args,
                 cp_prompt>>
  /\ UNCHANGED <<pipeVars, agVars, ivVars>>

UqDetect ==
  /\ uq_pc = "extracted"
  /\ uq_style' = detect_response_style(uq_question)
  /\ uq_pc' = "styled"
  /\ UNCHANGED <<uq_words, uq_question, uq_context, uq_run, cp_pc, cp_args,
                 cp_prompt>>
  /\ UNCHANGED <<pipeVars, agVars, ivVars>>

\* classifiers that report a primary intent just below or at the
\* SCOPE_DEFINITION threshold
UqClassifierBehaviours ==
  {[kind |-> "return", exc |-> "",
    json |-> [ok |-> TRUE, value |-> JsonObject(Str(p), Absent, Num(c), Absent)]] :
     p \in {"SCOPE_DEFINITION", "ACCEPTANCE_CRITERIA"}, c \in {55, 65}}

UqGeneratorBehaviours ==
  {[kind |-> "return", exc |-> "",
    text |-> "Objective: The submit button initiates a secure password recovery flow."]}

\* jira_refinement_copilot_v2 called with the same question
UqOrchestrate ==
  /\ uq_pc = "styled"
  /\ \E c \in UqClassifierBehaviours, g \in UqGeneratorBehaviours :
       uq_run' = [llm_classifier |-> c, llm_main |-> g,
                  result |-> RunAlone(c, g, uq_question)]
  /\ uq_pc' = "run"
  /\ UNCHANGED <<uq_words, uq_question, uq_context, uq_style, cp_pc, cp_args,
                 cp_prompt>>
  /\ UNCHANGED <<pipeVars, agVars, ivVars>>

UqNext ==
  \/ UqExtract
  \/ UqDetect
  \/ UqOrchestrate

SpecQuestion == UqInit /\ [][UqNext]_vars

-----------------------------------------------------------------------------
(* compose_final_prompt called on its own, as the unit tests call it: the  *)
(* context is the dict extract_context builds or a dict holding only some  *)
(* of the flags the composer reads, its keys inserted in any order.        *)

CpFlags == {"ui_related", "mentions_figma", "mentions_edge_cases"}

CpQuestions == {"", "What is the objective?", "Check the Figma design"}

CpContexts ==
  OrderedDicts(CpFlags) \cup {extract_context(q) : q \in CpQuestions}

CpStyles == {"CONVERSATIONAL", "STRUCTURED", "HYBRID"}

CpMasters == {MASTER_PROMPT, "MASTER"}

CpModePrompts == {MODE_PROMPTS[k] : k \in DOMAIN MODE_PROMPTS}

CpArgs ==
  [master : CpMasters, mode_prompt : CpModePrompts, question : CpQuestions,
   context : CpContexts, style : CpStyles, require_assumptions : BOOLEAN]

CpInit ==
  /\ PipeInit
  /\ AgIdle
  /\ UqIdle
  /\ IvIdle
  /\ cp_pc = "ready"
  /\ cp_args \in CpArgs
  /\ cp_prompt = ""

CpCall ==
  /\ cp_pc = "ready"
  /\ cp_prompt' = compose_final_prompt(cp_args.master, cp_args.mode_prompt,
                                        cp_args.question, cp_args.context,
                                        cp_args.style,
                                        cp_args.require_assumptions)
  /\ cp_pc' = "returned"
  /\ UNCHANGED <<cp_args, uq_pc, uq_words, uq_question, uq_context, uq_style,
                 uq_run>>
  /\ UNCHANGED <<pipeVars, agVars, ivVars>>

CpNext == CpCall

SpecCompose == CpInit /\ [][CpNext]_vars

-----------------------------------------------------------------------------
(* Several invocations of jira_refinement_copilot_v2 under way at once, as  *)
(* an outer server dispatches them, interleaved stage by stage.  Each has   *)
(* its own frame of locals; the module-level tables are one object that     *)
(* every invocation reads.  The frame records what each capability did     *)
(* when the invocation called it.                                           *)

Invocations == {"A", "B"}

IvQuestions == {"Tell me about the button", "Define the SCOPE of the export"}

IvClassifierBehaviours ==
  {[kind |-> "raise", exc |-> e, json |-> [ok |-> FALSE, value |-> Null]] :
     e \in {"Exception"}}
    \cup {[kind |-> "return", exc |-> "",
           json |-> [ok |-> TRUE, value |-> JsonObject(Str(p), s, Num(c), Absent)]] :
            p \in {"SCOPE_DEFINITION", "ACCEPTANCE_CRITERIA"},
            s \in {Absent, List(<<Str("UI_UX_BEHAVIOUR")>>), List(<<Num(1)>>)},
            c \in {55, 90}}

IvGeneratorBehaviours ==
  {[kind |-> "raise", exc |-> "Exception", text |-> ""],
   [kind |-> "return", exc |-> "",
    text |-> "\n  1. **Scope**: in scope is the export.\n- CSV only \n\n"]}

\* the tables as the module defines them when it is loaded
LoadedTables ==
  [INTENT_THRESHOLDS |-> INTENT_THRESHOLDS,
   CLARIFYING_QUESTIONS |-> CLARIFYING_QUESTIONS,
   MODE_PROMPTS |-> MODE_PROMPTS,
   MASTER_PROMPT |-> MASTER_PROMPT]

\* the frame of an invocation that is not under way
IdleFrame ==
  [pc |-> "idle", user_question |-> "", llm_classifier |-> NoBehaviour,
   llm_main |-> NoBehaviour, context |-> NoContext, style |-> "",
   intent_data |-> NoClassification, threshold |-> 0,
   needs_assumptions |-> FALSE, final_prompt |-> "", prompt_seen |-> "",
   response |-> "", returned |-> "", path |-> "none"]

IvInit ==
  /\ PipeInit
  /\ AgIdle
  /\ UnitIdle
  /\ iv_frames = [i \in Invocations |-> IdleFrame]
  /\ iv_tables = LoadedTables
  /\ iv_returns = 0

\* the except clause of the orchestrator, in the frame f
IvFailed(f) ==
  [f EXCEPT !.pc = "done", !.returned = PIPELINE_APOLOGY, !.path = "error"]

\* the frame i becomes f; nothing else is written
IvWrite(i, f) ==
  /\ iv_frames' = [iv_frames EXCEPT ![i] = f]
  /\ UNCHANGED iv_tables
  /\ UNCHANGED <<pipeVars, agVars, unitVars>>

IvStart(i) ==
  /\ iv_frames[i].pc = "idle"
  /\ \E q \in IvQuestions :
       IvWrite(i, [IdleFrame EXCEPT !.pc = "extract", !.user_question = q])
  /\ UNCHANGED iv_returns

\* a step 1 that keeps the context in one module-level object, which every
\* invocation past step 1 then reads
IvExtract_Shared(i) ==
  /\ iv_frames[i].pc = "extract"
  /\ iv_frames' =
       [j \in Invocations |->
          IF j = i
          THEN [iv_frames[i] EXCEPT
                  !.context = extract_context(iv_frames[i].user_question),
                  !.pc = "style"]
          ELSE IF iv_frames[j].pc \in {"style", "classify", "threshold",
                                       "assumption", "compose"}
          THEN [iv_frames[j] EXCEPT
                  !.context = extract_context(iv_frames[i].user_question)]
          ELSE iv_frames[j]]
  /\ UNCHANGED <<iv_tables, iv_returns>>
  /\ UNCHANGED <<pipeVars, agVars, unitVars>>

\* step 1
IvExtract(i) ==
  /\ iv_frames[i].pc = "extract"
  /\ IvWrite(i, [iv_frames[i] EXCEPT
                   !.context = extract_context(iv_frames[i].user_question),
                   !.pc = "style"])
  /\ UNCHANGED iv_returns

\* step 2
IvStyle(i) ==
  /\ iv_frames[i].pc = "style"
  /\ IvWrite(i, [iv_frames[i] EXCEPT
                   !.style = detect_response_style(iv_frames[i].user_question),
                   !.pc = "classify"])
  /\ UNCHANGED iv_returns

\* step 3
IvClassify(i) ==
  /\ iv_frames[i].pc = "classify"
  /\ \E beh \in IvClassifierBehaviours :
       LET f == [iv_frames[i] EXCEPT !.llm_classifier = beh]
           r == classify_intent(beh)
       IN IvWrite(i, IF r.raised THEN IvFailed(f)
                     ELSE [f EXCEPT !.intent_data = r.value,
                                    !.pc = "threshold"])
  /\ UNCHANGED iv_returns

\* a step 4 that, on a clarification, lowers the table's threshold of the
\* primary intent to the confidence it has just seen
IvThreshold_Tunes(i) ==
  /\ iv_frames[i].pc = "threshold"
  /\ LET f == iv_frames[i]
         primary == f.intent_data.primary
         thr == DictGet(iv_tables.INTENT_THRESHOLDS, primary, 60)
         below == Hashable(primary)
                    /\ BelowThreshold(NumberOf(f.intent_data.confidence), thr)
     IN /\ iv_frames' =
             [iv_frames EXCEPT ![i] =
                IF ~Hashable(primary) THEN IvFailed(f)
                ELSE IF below
                THEN [f EXCEPT
                        !.threshold = thr,
                        !.returned =
                           DictGet(iv_tables.CLARIFYING_QUESTIONS, primary,
                                   iv_tables.CLARIFYING_QUESTIONS["STORY_REFINEMENT"]),
                        !.path = "clarify",
                        !.pc = "done"]
                ELSE [f EXCEPT !.threshold = thr, !.pc = "assumption"]]
        /\ iv_tables' =
             IF below /\ primary.v \in DOMAIN iv_tables.INTENT_THRESHOLDS
             THEN [iv_tables EXCEPT
                     !.INTENT_THRESHOLDS[primary.v] =
                       NumberOf(f.intent_data.confidence)]
             ELSE iv_tables
  /\ UNCHANGED iv_returns
  /\ UNCHANGED <<pipeVars, agVars, unitVars>>

\* step 4
IvThreshold(i) ==
  /\ iv_frames[i].pc = "threshold"
  /\ LET f == iv_frames[i]
         primary == f.intent_data.primary
         thr == DictGet(iv_tables.INTENT_THRESHOLDS, primary, 60)
     IN IvWrite(i,
          IF ~Hashable(primary) THEN IvFailed(f)
          ELSE IF BelowThreshold(NumberOf(f.intent_data.confidence), thr)
          THEN [f EXCEPT
                  !.threshold = thr,
                  !.returned =
                     DictGet(iv_tables.CLARIFYING_QUESTIONS, primary,
                             iv_tables.CLARIFYING_QUESTIONS["STORY_REFINEMENT"]),
                  !.path = "clarify",
                  !.pc = "done"]
          ELSE [f EXCEPT !.threshold = thr, !.pc = "assumption"])
  /\ UNCHANGED iv_returns

\* step 5
IvGate(i) ==
  /\ iv_frames[i].pc = "assumption"
  /\ LET f == iv_frames[i]
     IN IvWrite(i, [f EXCEPT
                      !.needs_assumptions =
                         assumption_gate(f.intent_data.primary, f.context),
                      !.pc = "compose"])
  /\ UNCHANGED iv_returns

\* step 6
IvCompose(i) ==
  /\ iv_frames[i].pc = "compose"
  /\ LET f == iv_frames[i]
     IN IvWrite(i, [f EXCEPT
                      !.final_prompt =
                         compose_final_prompt(
                           iv_tables.MASTER_PROMPT,
                           DictGet(iv_tables.MODE_PROMPTS,
                                   f.intent_data.primary,
                                   iv_tables.MODE_PROMPTS["STORY_REFINEMENT"]),
                           f.user_question, f.context, f.style,
                           f.needs_assumptions),
                      !.pc = "generate"])
  /\ UNCHANGED iv_returns

\* step 7
IvGenerate(i) ==
  /\ iv_frames[i].pc = "generate"
  /\ \E beh \in IvGeneratorBehaviours :
       LET f == iv_frames[i]
       IN IvWrite(i, [f EXCEPT
                        !.llm_main = beh,
                        !.response = strip(generate_response(beh)),
                        !.prompt_seen = f.final_prompt,
                        !.pc = "secondary"])
  /\ UNCHANGED iv_returns

\* step 8
IvAnnotate(i) ==
  /\ iv_frames[i].pc = "secondary"
  /\ LET f == iv_frames[i]
         secondary == f.intent_data.secondary
     IN IvWrite(i,
          IF Truthy(secondary) /\ ~Joinable(secondary.v) THEN IvFailed(f)
          ELSE [f EXCEPT !.response = OfferSecondary(f.response, secondary),
                         !.returned = OfferSecondary(f.response, secondary),
                         !.path = "answer",
                         !.pc = "done"])
  /\ UNCHANGED iv_returns

\* the call has returned: its frame is gone and the caller may call again
IvReturn(i) ==
  /\ iv_frames[i].pc = "done"
  /\ iv_returns < MaxReturns
  /\ IvWrite(i, IdleFrame)
  /\ iv_returns' = iv_returns + 1

IvNext ==
  \E i \in Invocations :
    \/ IvStart(i)
    \/ IvExtract(i)
    \/ IvStyle(i)
    \/ IvClassify(i)
    \/ IvThreshold(i)
    \/ IvGate(i)
    \/ IvCompose(i)
    \/ IvGenerate(i)
    \/ IvAnnotate(i)
    \/ IvReturn(i)

SpecInterleaved == IvInit /\ [][IvNext]_vars

-----------------------------------------------------------------------------
(* Properties.  Vocabulary shared by the statements below.                 *)

\* the classifier has answered and classify_intent has returned its dict
Classified == classifier_calls = 1 /\ intent_data # NoClassification

Primary == intent_data.primary
Confidence == NumberOf(intent_data.confidence)
Secondary == intent_data.secondary

\* the primary intent is a key of the threshold table
PrimaryInThresholdTable ==
  Primary.t = "str" /\ Primary.v \in DOMAIN INTENT_THRESHOLDS

\* the invocation went past step 4 without returning
Continued ==
  \/ pc \in {"assumption", "compose", "generate", "secondary"}
  \/ pc = "done" /\ path = "answer"
  \/ pc = "done" /\ path = "error" /\ generator_calls = 1

\* the invocation returned the clarifying question at step 4
Clarified == pc = "done" /\ path = "clarify"

\* the returned text carries the offer of secondary intents
HasOffer(text) == Contains(text, SECONDARY_OFFER)

\* the items of a list separated by ", ", built from its last item
RECURSIVE CommaSeparated(_)
CommaSeparated(items) ==
  IF Len(items) = 1 THEN items[1].v
  ELSE CommaSeparated(SubSeq(items, 1, Len(items) - 1)) \o ", "
         \o items[Len(items)].v

\* the secondary list of the classification holds at least one intent
SecondaryNonEmpty == Secondary.t = "list" /\ Len(Secondary.v) > 0

\* what the classifier's object carries under key, or Absent
Member(key) ==
  IF key \in DOMAIN cls_beh.json.value.v THEN cls_beh.json.value.v[key]
  ELSE Absent

\* the classifier returned text that parses to a JSON object
ReturnedObject ==
  /\ classifier_calls = 1
  /\ cls_beh.kind = "return"
  /\ cls_beh.json.ok
  /\ cls_beh.json.value.t = "obj"

\* C1: for a primary intent of the threshold table the clarifying question
\* is returned iff the confidence is strictly below the intent's threshold;
\* at or above it (equality included) the invocation goes on to assumption
\* gating, prompt composition and generation.
C1_ThresholdGate ==
  (PrimaryInThresholdTable /\ (Clarified \/ Continued)) =>
     /\ Clarified <=> (Confidence < INTENT_THRESHOLDS[Primary.v])
     /\ Continued <=> (Confidence >= INTENT_THRESHOLDS[Primary.v])
     /\ Clarified => generator_calls = 0

\* C1 witness: OBJECTIVE_INTENT at exactly its threshold 0.7 has reached the
\* generator.
C1_Witness ==
  /\ pc = "secondary"
  /\ generator_calls = 1
  /\ Primary = Str("OBJECTIVE_INTENT")
  /\ Confidence = 70

\* the threshold step 4 compares against, for a primary it can look up
GateThreshold ==
  IF PrimaryInThresholdTable THEN INTENT_THRESHOLDS[Primary.v] ELSE 60

\* step 4 found the confidence below the threshold
BelowGate == Classified /\ Hashable(Primary) /\ Confidence < GateThreshold

\* C2: whenever the confidence is below the threshold the invocation returns
\* the clarifying question of the primary intent (the STORY_REFINEMENT one
\* for a primary outside the table), nothing appended, and the generator is
\* not called at any point.
C2_ClarifyVerbatim ==
  BelowGate =>
     /\ pc \in {"threshold", "done"}
     /\ generator_calls = 0
     /\ gen_beh = NoBehaviour
     /\ pc = "done" =>
          /\ ~raised
          /\ returned =
               (IF Primary.t = "str" /\ Primary.v \in DOMAIN CLARIFYING_QUESTIONS
                THEN CLARIFYING_QUESTIONS[Primary.v]
                ELSE CLARIFYING_QUESTIONS["STORY_REFINEMENT"])

\* C2 witness: "Tell me about the button", ACCEPTANCE_CRITERIA at 0.45 with
\* secondary intents reported, has returned.
C2_Witness ==
  /\ pc = "done"
  /\ user_question = "Tell me about the button"
  /\ Primary = Str("ACCEPTANCE_CRITERIA")
  /\ Confidence = 45
  /\ SecondaryNonEmpty
  /\ returned = CLARIFYING_QUESTIONS["ACCEPTANCE_CRITERIA"]

\* C3 (as claimed): whenever the generator raised, the text returned is the
\* fixed apology exactly, whatever the classification was.
C3_ApologyExact ==
  (pc = "done" /\ path = "answer" /\ gen_beh.kind = "raise") =>
     returned = GENERATION_APOLOGY

\* C4: no exception reaches the caller; every invocation ends by returning
\* a string: an answer, a clarifying question or an apology.
C4_NeverRaises ==
  /\ ~raised
  /\ pc = "done" =>
       \/ path = "clarify"
            /\ \E i \in DOMAIN CLARIFYING_QUESTIONS :
                 returned = CLARIFYING_QUESTIONS[i]
       \/ path = "error" /\ returned = PIPELINE_APOLOGY
       \/ path = "answer" /\ gen_beh.kind = "raise"
            /\ SubSeq(returned, 1, Len(GENERATION_APOLOGY)) = GENERATION_APOLOGY
       \/ path = "answer" /\ gen_beh.kind = "return"
            /\ SubSeq(returned, 1, Len(strip(gen_beh.text))) = strip(gen_beh.text)

\* C4 witness: a fault inside a stage (classify_intent let an exception out)
\* ended in the returned apology.
C4_Witness ==
  /\ pc = "done"
  /\ path = "error"
  /\ cls_beh.kind = "raise"
  /\ returned = PIPELINE_APOLOGY

\* C5 (as claimed): a primary intent without a threshold entry is held
\* against the STORY_REFINEMENT threshold: clarification iff c < 0.5.
C5_UnknownUsesStoryRefinement ==
  (Classified /\ Primary.t = "str" /\ ~PrimaryInThresholdTable
     /\ (Clarified \/ Continued)) =>
       (Clarified <=> (Confidence < INTENT_THRESHOLDS["STORY_REFINEMENT"]))

\* C6 (as claimed): when the classifier raises, whatever the exception,
\* classify_intent raises nothing and returns STORY_REFINEMENT, [], 0.3.
C6_RaiseDegradesTo30 ==
  (classifier_calls = 1 /\ cls_beh.kind = "raise") =>
     /\ path # "error"
     /\ intent_data = [primary |-> Str("STORY_REFINEMENT"),
                       secondary |-> List(<<>>), confidence |-> Num(30)]

\* C7 (as claimed): text that is not JSON, and JSON that is not an object,
\* both give STORY_REFINEMENT, [], 0.4.
C7_UnparseableDegradesTo40 ==
  (classifier_calls = 1 /\ cls_beh.kind = "return"
     /\ (~cls_beh.json.ok \/ cls_beh.json.value.t # "obj")) =>
       intent_data = [primary |-> Str("STORY_REFINEMENT"),
                      secondary |-> List(<<>>), confidence |-> Num(40)]

\* each field of the result: the member when present, else its own default
FieldwiseResult ==
  [primary |-> IF Member("primary_intent") = Absent
               THEN Str("STORY_REFINEMENT") ELSE Member("primary_intent"),
   secondary |-> IF Member("secondary_intents") = Absent
                 THEN List(<<>>) ELSE Member("secondary_intents"),
   confidence |-> IF Member("confidence") = Absent
                  THEN Num(50) ELSE Member("confidence")]

\* C8 (as claimed): for every parseable object each field is defaulted on
\* its own and every field present is passed through unchanged.
C8_FieldsIndependent ==
  ReturnedObject => intent_data = FieldwiseResult

\* C9 (as claimed): the returned text ends with the offer of the secondary
\* intents iff the secondary list is non-empty.
C9_OfferIffSecondary_Original ==
  (pc = "done" /\ path \in {"clarify", "answer"}) =>
     (HasOffer(returned) <=> SecondaryNonEmpty)

\* every element of the secondary list is a str
SecondaryOnlyStrings ==
  \A i \in 1..Len(Secondary.v) : Secondary.v[i].t = "str"

\* C9 (amended): the returned text carries the offer iff the invocation
\* went past the threshold gate and the secondary list is non-empty and
\* holds only strings; the text is then the response followed by one
\* trailing sentence naming every secondary intent in classification order,
\* duplicates kept, separated by ", ".  The clarifying question is returned
\* without the offer whatever the secondary list, and past the gate a
\* non-empty list with an element that is not a string ends in the pipeline
\* apology without the offer.
C9_OfferIffSecondary ==
  pc = "done" =>
     /\ HasOffer(returned) <=>
          (Continued /\ SecondaryNonEmpty /\ SecondaryOnlyStrings)
     /\ path = "answer" =>
          returned =
            strip(generate_response(gen_beh))
              \o (IF SecondaryNonEmpty
                  THEN "\n\nWould you also like help with: "
                         \o CommaSeparated(Secondary.v) \o "?"
                  ELSE "")
     /\ path = "clarify" =>
          /\ ~Continued
          /\ ~HasOffer(returned)
     /\ (Continued /\ SecondaryNonEmpty /\ ~SecondaryOnlyStrings) =>
          /\ path = "error"
          /\ returned = PIPELINE_APOLOGY

\* C9 witness: two different secondary intents, offered in their order.
C9_Witness ==
  /\ pc = "done"
  /\ path = "answer"
  /\ gen_beh.kind = "return"
  /\ Secondary = List(<<Str("UI_UX_BEHAVIOUR"), Str("SCOPE_DEFINITION")>>)
  /\ returned =
       strip(gen_beh.text)
         \o "\n\nWould you also like help with: UI_UX_BEHAVIOUR, SCOPE_DEFINITION?"

\* a flag of the context; a missing flag counts as false
Flag(ctx, name) == name \in DictKeys(ctx) /\ DictItem(ctx, name)

\* C10: assumption_gate is NOT ui_related for ACCEPTANCE_CRITERIA and
\* DEVELOPMENT_READINESS, NOT mentions_figma for FIGMA_ALIGNMENT, NOT
\* mentions_scope for SCOPE_DEFINITION and false for every other intent; a
\* missing flag counts as false and no other flag matters.
C10_AssumptionGateTable ==
  ag_pc = "returned" =>
     ag_result =
       CASE ag_intent = Str("ACCEPTANCE_CRITERIA") ->
              ~Flag(ag_context, "ui_related")
         [] ag_intent = Str("DEVELOPMENT_READINESS") ->
              ~Flag(ag_context, "ui_related")
         [] ag_intent = Str("FIGMA_ALIGNMENT") ->
              ~Flag(ag_context, "mentions_figma")
         [] ag_intent = Str("SCOPE_DEFINITION") ->
              ~Flag(ag_context, "mentions_scope")
         [] OTHER -> FALSE

\* C10 witness: SCOPE_DEFINITION with the scope flag missing and the other
\* flags set needs assumptions.
C10_Witness ==
  /\ ag_pc = "returned"
  /\ ag_intent = Str("SCOPE_DEFINITION")
  /\ ag_context = <<<<"mentions_figma", TRUE>>, <<"ui_related", TRUE>>>>
  /\ ag_result = TRUE

\* the lower-case spelling of the question a run of phrases spells
RECURSIVE LowOf(_)
LowOf(ws) ==
  IF Len(ws) = 0 THEN ""
  ELSE LowOf(SubSeq(ws, 1, Len(ws) - 1))
         \o (IF Len(ws) > 1 THEN " " ELSE "") \o ws[Len(ws)].low

\* the lower-cased question holds one of the keywords
Mentions(keywords) == \E w \in keywords : Contains(LowOf(uq_words), w)

ConversationalKeywords ==
  {"just explain", "in simple terms", "what is", "why", "help me understand"}

StructuredKeywords ==
  {"acceptance", "scope", "ready", "criteria", "list", "define"}

\* C11: detect_response_style returns exactly one of CONVERSATIONAL,
\* STRUCTURED, HYBRID: CONVERSATIONAL if the lower-cased question holds a
\* conversational keyword (structured keywords or not), otherwise
\* STRUCTURED if it holds a structured keyword, otherwise HYBRID.
C11_StylePrecedence ==
  uq_pc = "styled" =>
     /\ uq_style \in {"CONVERSATIONAL", "STRUCTURED", "HYBRID"}
     /\ (uq_style = "CONVERSATIONAL") <=> Mentions(ConversationalKeywords)
     /\ (uq_style = "STRUCTURED") <=>
          (~Mentions(ConversationalKeywords) /\ Mentions(StructuredKeywords))
     /\ (uq_style = "HYBRID") <=>
          (~Mentions(ConversationalKeywords) /\ ~Mentions(StructuredKeywords))

\* C11 witness: "Why Scope" holds a conversational and a structured keyword
\* and is CONVERSATIONAL.
C11_Witness ==
  /\ uq_pc = "styled"
  /\ uq_question = "Why Scope"
  /\ Mentions(ConversationalKeywords)
  /\ Mentions(StructuredKeywords)
  /\ uq_style = "CONVERSATIONAL"

\* first position of needle in haystack at or after position from, 0 if none
FindFrom(haystack, needle, from) ==
  LET hits == {i \in from..(Len(haystack) - Len(needle) + 1) :
                 SubSeq(haystack, i, i + Len(needle) - 1) = needle}
  IN IF hits = {} THEN 0 ELSE CHOOSE i \in hits : \A j \in hits : i <= j

\* the flag of the composer's context, a missing flag reading as false
CpFlag(flag) ==
  flag \in DictKeys(cp_args.context) /\ DictItem(cp_args.context, flag)

FigmaBlock == "IMPORTANT: User mentioned Figma. Emphasize design alignment checks and verify against Figma mockups."

UiBlock == "NOTE: This is UI-related. Consider suggesting Figma validation if designs exist."

EdgeBlock == "FOCUS: User is concerned about edge cases. Provide comprehensive risk analysis."

\* C12: in the composed prompt the Figma-emphasis block is present iff
\* mentions_figma, the UI-without-Figma suggestion iff ui_related and not
\* mentions_figma (so never both), the edge-case block iff
\* mentions_edge_cases whatever the other two, and the edge-case block
\* comes after whichever of the other two is present.
C12_WarningBlocks ==
  cp_pc = "returned" =>
     /\ Contains(cp_prompt, FigmaBlock) <=> CpFlag("mentions_figma")
     /\ Contains(cp_prompt, UiBlock) <=>
          (CpFlag("ui_related") /\ ~CpFlag("mentions_figma"))
     /\ ~(Contains(cp_prompt, FigmaBlock) /\ Contains(cp_prompt, UiBlock))
     /\ Contains(cp_prompt, EdgeBlock) <=> CpFlag("mentions_edge_cases")
     /\ \A b \in {FigmaBlock, UiBlock} :
          (Contains(cp_prompt, b) /\ Contains(cp_prompt, EdgeBlock)) =>
             FindFrom(cp_prompt, b, 1) + Len(b)
               <= FindFrom(cp_prompt, EdgeBlock, 1)

\* C12 witness: a UI-related context that mentions Figma and edge cases
\* gets the Figma block, then the edge-case block, and no UI suggestion.
C12_Witness ==
  /\ cp_pc = "returned"
  /\ CpFlag("ui_related")
  /\ CpFlag("mentions_figma")
  /\ CpFlag("mentions_edge_cases")
  /\ Contains(cp_prompt, FigmaBlock)
  /\ Contains(cp_prompt, EdgeBlock)
  /\ ~Contains(cp_prompt, UiBlock)

\* the position just past the first needle found in the composed prompt at
\* or after position from; 0 if there is none or from is 0
Past(from, needle) ==
  IF from = 0 THEN 0
  ELSE LET i == FindFrom(cp_prompt, needle, from)
       IN IF i = 0 THEN 0 ELSE i + Len(needle)

\* the same for a section that is present only on a condition
PastIf(condition, from, needle) ==
  IF condition THEN Past(from, needle) ELSE from

AssumptionBlock == "If information is missing:\n- List assumptions explicitly\n- Ask clarification questions"

\* C13: the composed prompt holds the master block, the style label, the
\* task template, the assumption block (if required), the warning blocks
\* (if any), the dump of the context and the question, one after the other
\* in this order.
C13_SectionOrder ==
  cp_pc = "returned" =>
    LET master == Past(1, cp_args.master)
        label == Past(master, "Response Style: " \o cp_args.style)
        task == Past(label, cp_args.mode_prompt)
        assume == PastIf(cp_args.require_assumptions, task, AssumptionBlock)
        figma == PastIf(CpFlag("mentions_figma"), assume, FigmaBlock)
        ui == PastIf(CpFlag("ui_related") /\ ~CpFlag("mentions_figma"),
                     figma, UiBlock)
        edge == PastIf(CpFlag("mentions_edge_cases"), ui, EdgeBlock)
        dump == Past(edge, ContextRepr(cp_args.context))
        question == Past(dump, cp_args.question)
    IN question > 0

\* C13 witness: a prompt composed with every optional section present.
C13_Witness ==
  /\ cp_pc = "returned"
  /\ cp_args.master = MASTER_PROMPT
  /\ cp_args.question = "Check the Figma design"
  /\ cp_args.require_assumptions
  /\ CpFlag("mentions_figma")
  /\ CpFlag("mentions_edge_cases")
  /\ Past(Past(Past(1, MASTER_PROMPT), AssumptionBlock), EdgeBlock) > 0
  /\ Past(Past(1, "Context Extracted:"), "Check the Figma design") > 0

\* C14: the assumption block is part of the composed prompt iff
\* require_assumptions is true, whatever the context, style and question.
C14_AssumptionBlockIffRequired ==
  cp_pc = "returned" =>
    (Contains(cp_prompt, AssumptionBlock) <=> cp_args.require_assumptions)

\* C14 witness: a prompt composed with require_assumptions holds both
\* directives of the block.
C14_Witness ==
  /\ cp_pc = "returned"
  /\ cp_args.require_assumptions
  /\ cp_args.context = <<<<"ui_related", FALSE>>>>
  /\ cp_args.style = "STRUCTURED"
  /\ Contains(cp_prompt, "- List assumptions explicitly")
  /\ Contains(cp_prompt, "- Ask clarification questions")

\* the primary intent was looked up and is a key of neither the
\* mode-template table nor the clarifying-question table
PrimaryUnmapped ==
  /\ Classified
  /\ Hashable(Primary)
  /\ ~(Primary.t = "str" /\ Primary.v \in DOMAIN MODE_PROMPTS)
  /\ ~(Primary.t = "str" /\ Primary.v \in DOMAIN CLARIFYING_QUESTIONS)

\* C15: a primary intent missing from the tables causes no fault: when it
\* passes the gate the prompt handed to the generator carries the
\* STORY_REFINEMENT task template, when it fails the gate the
\* STORY_REFINEMENT clarifying question is returned, and the invocation
\* ends in the apology only where joining the secondary intents fails.
C15_ConfigurationGaps ==
  PrimaryUnmapped =>
     /\ ~raised
     /\ generator_calls = 1 =>
          Contains(prompt_seen,
                   "\n\nTask:\n" \o MODE_PROMPTS["STORY_REFINEMENT"] \o "\n\n")
     /\ Clarified => returned = CLARIFYING_QUESTIONS["STORY_REFINEMENT"]
     /\ (pc = "done" /\ path = "error") =>
          (generator_calls = 1 /\ Truthy(Secondary) /\ ~Joinable(Secondary.v))

\* C15 witness: RELEASE_PLANNING at 0.9 passed the gate and the generator
\* was handed a prompt with the STORY_REFINEMENT template.
C15_Witness ==
  /\ PrimaryUnmapped
  /\ Primary = Str(UnknownIntent)
  /\ Confidence = 90
  /\ pc = "done"
  /\ path = "answer"
  /\ generator_calls = 1
  /\ Contains(prompt_seen, "Improve clarity and readiness of the requirement.")

\* the keyword set of each field of the context
ContextKeywords ==
  [ui_related |-> {"button", "screen", "click", "field", "page", "form",
                   "input", "modal", "popup"},
   mentions_figma |-> {"figma", "mockup", "design mockup", "ui design"},
   mentions_scope |-> {"scope", "in-scope", "out of scope"},
   mentions_ac |-> {"acceptance", "ac", "criteria"},
   mentions_ready |-> {"ready", "sprint", "development"},
   mentions_edge_cases |-> {"edge", "risk", "error", "failure", "exception"},
   mentions_business_rules |-> {"rule", "validation", "condition", "if then",
                                "if-then"},
   has_question_words |-> {"what", "why", "how", "when", "where", "who"}]

\* C16: extract_context returns, for every question, a record with exactly
\* the eight named fields, each a boolean that is true iff the lower-cased
\* question holds a keyword of the field's own set; the question written
\* in lower case gives the same record, and several flags may be true at
\* once.
C16_ExtractContextTotal ==
  uq_pc \in {"extracted", "styled"} =>
     /\ Len(uq_context) = 8
     /\ DictKeys(uq_context) = {ContextKeys[i] : i \in 1..Len(ContextKeys)}
     /\ \A f \in DictKeys(uq_context) :
          /\ DictItem(uq_context, f) \in BOOLEAN
          /\ DictItem(uq_context, f) <=> Mentions(ContextKeywords[f])
     /\ uq_context = extract_context(LowOf(uq_words))

\* C16 witness: "Figma Edge", written with capitals, sets two flags and
\* leaves the others false.
C16_Witness ==
  /\ uq_pc = "extracted"
  /\ uq_question = "Figma Edge"
  /\ DictItem(uq_context, "mentions_figma")
  /\ DictItem(uq_context, "mentions_edge_cases")
  /\ ~DictItem(uq_context, "ui_related")
  /\ ~DictItem(uq_context, "has_question_words")

\* C17 (as claimed): every result classify_intent returns has a confidence
\* within [0.0, 1.0], also when the classifier reports one below 0 or above
\* 1, so the value held against the threshold is within [0, 1].
C17_ConfidenceInUnitInterval ==
  Classified => (0 <= Confidence /\ Confidence <= 100)

\* C18 (as claimed): every result classify_intent returns has a primary
\* that is one of the ten intents and a secondary list of intents only, so
\* no other value reaches the table lookups or the offer shown to the user.
C18_IntentsInClosedSet ==
  Classified =>
     /\ Primary.t = "str"
     /\ Primary.v \in Intents
     /\ Secondary.t = "list"
     /\ \A i \in 1..Len(Secondary.v) :
          Secondary.v[i].t = "str" /\ Secondary.v[i].v \in Intents

\* C19: each of the ten intents, STORY_REFINEMENT included, has an entry in
\* the threshold table, the clarifying-question table and the mode-template
\* table, the three tables have the same keys, every threshold lies in
\* [0, 1], and the threshold an invocation holds a listed intent against is
\* its entry.
C19_TablesComplete ==
  /\ Cardinality(Intents) = 10
  /\ "STORY_REFINEMENT" \in Intents
  /\ DOMAIN INTENT_THRESHOLDS = Intents
  /\ DOMAIN CLARIFYING_QUESTIONS = Intents
  /\ DOMAIN MODE_PROMPTS = Intents
  /\ \A k \in DOMAIN INTENT_THRESHOLDS :
       0 <= INTENT_THRESHOLDS[k] /\ INTENT_THRESHOLDS[k] <= 100
  /\ \A k \in Intents :
       CLARIFYING_QUESTIONS[k] # "" /\ MODE_PROMPTS[k] # ""
  /\ (Classified /\ (Clarified \/ Continued) /\ Primary.t = "str"
        /\ Primary.v \in Intents) =>
          /\ threshold = INTENT_THRESHOLDS[Primary.v]
          /\ 0 <= threshold /\ threshold <= 100

\* C19 witness: an invocation classified DEVELOPMENT_READINESS was held
\* against that intent's threshold and answered from its template.
C19_Witness ==
  /\ Classified
  /\ Primary = Str("DEVELOPMENT_READINESS")
  /\ pc = "done"
  /\ path = "answer"
  /\ threshold = 60
  /\ Contains(prompt_seen, MODE_PROMPTS["DEVELOPMENT_READINESS"])

\* the text neither starts nor ends with whitespace
Trimmed(text) ==
  text = "" \/ (~IsSpace(SubSeq(text, 1, 1))
                  /\ ~IsSpace(SubSeq(text, Len(text), Len(text))))

\* the text is whitespace only
Blank(text) == \A i \in 1..Len(text) : IsSpace(SubSeq(text, i, i))

\* inner is outer without the whitespace at its two ends
TrimOf(inner, outer) ==
  /\ Trimmed(inner)
  /\ \E i \in 0..Len(outer) :
       /\ i + Len(inner) <= Len(outer)
       /\ SubSeq(outer, i + 1, i + Len(inner)) = inner
       /\ Blank(SubSeq(outer, 1, i))
       /\ Blank(SubSeq(outer, i + Len(inner) + 1, Len(outer)))

\* the generator has returned text and step 7 has stored the response
Generated == pc = "secondary" /\ gen_beh.kind = "return"

\* C20 (as claimed): when the generator returns text without raising,
\* generate_response returns that text with leading and trailing whitespace
\* removed.
C20_GenerateResponseTrims_Original ==
  Generated => TrimOf(generate_response(gen_beh), gen_beh.text)

\* C20 (amended): when the generator returns text without raising,
\* generate_response returns that text as it is, and the orchestrator
\* removes the leading and trailing whitespace from it in step 7.
C20_GenerateResponseTrims ==
  Generated =>
     /\ generate_response(gen_beh) = gen_beh.text
     /\ TrimOf(response, gen_beh.text)

\* C20 witness: the generator returned text with whitespace at both ends
\* and the response of step 7 is the text without it.
C20_Witness ==
  /\ Generated
  /\ gen_beh.text = "\f\n  1. **Scope**: in scope is the export.\n- CSV only \n\f"
  /\ response = "1. **Scope**: in scope is the export.\n- CSV only"

\* C21: in one invocation the classifier is called exactly once and the
\* generator at most once, also when either raises or returns unusable
\* output: no capability is called a second time.
C21_NoRetries ==
  /\ classifier_calls <= 1
  /\ generator_calls <= 1
  /\ pc \in {"idle", "extract", "style", "classify"} => classifier_calls = 0
  /\ pc \in {"threshold", "assumption", "compose", "generate", "secondary",
              "done"} => classifier_calls = 1
  /\ pc \in {"idle", "extract", "style", "classify", "threshold",
              "assumption", "compose", "generate"} => generator_calls = 0
  /\ pc = "secondary" => generator_calls = 1
  /\ (pc = "done" /\ cls_beh.kind = "raise") =>
        (classifier_calls = 1 /\ generator_calls = 0)
  /\ (pc = "done" /\ gen_beh.kind = "raise") =>
        (classifier_calls = 1 /\ generator_calls = 1)

\* C21 witness: an invocation whose generator raised has returned after one
\* call of each capability.
C21_Witness ==
  /\ pc = "done"
  /\ gen_beh.kind = "raise"
  /\ classifier_calls = 1
  /\ generator_calls = 1
  /\ ~raised

\* the invocation i, run alone with its own question and capabilities
Alone(i) ==
  RunAlone(iv_frames[i].llm_classifier, iv_frames[i].llm_main,
           iv_frames[i].user_question)

\* C22: invocations interleaved stage by stage do not affect each other:
\* whatever the other one does, the locals each stage of an invocation
\* leaves, the prompt it hands to the generator and the text it returns are
\* those of the same invocation run alone with the same question and the
\* same capability responses.
C22_InterleavingIndependent ==
  \A i \in DOMAIN iv_frames :
    LET f == iv_frames[i] IN
    /\ f.pc \in {"style", "classify", "threshold", "assumption", "compose",
                 "generate", "secondary"}
         => f.context = extract_context(f.user_question)
    /\ f.pc \in {"classify", "threshold", "assumption", "compose",
                 "generate", "secondary"}
         => f.style = detect_response_style(f.user_question)
    /\ f.pc \in {"threshold", "assumption", "compose", "generate",
                 "secondary"}
         => f.intent_data = classify_intent(f.llm_classifier).value
    /\ f.pc \in {"generate", "secondary"}
         => (Alone(i).generated /\ f.final_prompt = Alone(i).prompt)
    /\ f.pc = "done"
         => /\ f.returned = Alone(i).returned
            /\ f.path = Alone(i).path
            /\ f.prompt_seen = Alone(i).prompt

\* C22 witness: B has its answer to the SCOPE question and A, called with
\* another question, has its clarifying question, both not yet returned.
C22_Witness ==
  /\ DOMAIN iv_frames = Invocations
  /\ iv_frames["A"].pc = "done"
  /\ iv_frames["A"].user_question = "Tell me about the button"
  /\ iv_frames["A"].path = "clarify"
  /\ iv_frames["B"].pc = "done"
  /\ iv_frames["B"].user_question = "Define the SCOPE of the export"
  /\ iv_frames["B"].path = "answer"
  /\ iv_frames["B"].returned = Alone("B").returned

\* the stages of an invocation that come after extract_context
AfterExtract ==
  {"style", "classify", "threshold", "assumption", "compose", "generate",
   "secondary", "done"}

\* C23: every step of every invocation, whether it ends in an answer, a
\* clarifying question or an apology, leaves the three tables and the
\* master prompt as they were loaded; no stage after extract_context
\* changes the context of its invocation; and what an invocation returns
\* is what it returns run alone, however many invocations returned before.
C23_TablesAndContextReadOnly ==
  /\ [](/\ iv_tables = LoadedTables
        /\ \A i \in DOMAIN iv_frames :
             iv_frames[i].pc = "done" =>
               /\ iv_frames[i].returned = Alone(i).returned
               /\ iv_frames[i].path \in {"answer", "clarify", "error"})
  /\ [][/\ iv_tables' = iv_tables
        /\ \A i \in DOMAIN iv_frames :
             (iv_frames[i].pc \in AfterExtract
                /\ iv_frames'[i].pc \in AfterExtract)
               => iv_frames'[i].context = iv_frames[i].context]_vars

\* C23 witness: two invocations have returned, a third has ended in an
\* answer and a fourth in the apology, and the tables are as loaded.
C23_Witness ==
  /\ iv_returns = 2
  /\ DOMAIN iv_frames = Invocations
  /\ iv_frames["A"].pc = "done"
  /\ iv_frames["A"].path = "answer"
  /\ iv_frames["B"].pc = "done"
  /\ iv_frames["B"].path = "error"
  /\ iv_tables = LoadedTables

\* C24: in every invocation the context is extracted and the style detected
\* before the classifier is called; the threshold decision is taken after
\* the classification; the assumption gate and the composer run only when
\* the gate passed, never on the clarify path; the generator is called only
\* with the composed prompt; and the secondary intents are annotated only
\* after the generator call has finished.
C24_StageOrder ==
  /\ [](/\ path = "clarify" =>
             (final_prompt = "" /\ ~needs_assumptions /\ generator_calls = 0
                /\ response = "")
        /\ generator_calls = 1 => (final_prompt # "" /\ prompt_seen = final_prompt))
  /\ [][/\ classifier_calls' = classifier_calls + 1 =>
             /\ context = extract_context(user_question)
             /\ style = detect_response_style(user_question)
             /\ intent_data = NoClassification
        /\ (threshold' # threshold \/ (path' = "clarify" /\ path = "none")) =>
             ((classifier_calls = 1 /\ Classified) \/ pc' = "idle")
        /\ ((needs_assumptions' # needs_assumptions
               \/ final_prompt' # final_prompt) /\ pc' # "idle") =>
             /\ Classified
             /\ path = "none"
             /\ ~BelowThreshold(Confidence, threshold)
             /\ generator_calls = 0
        /\ final_prompt' # final_prompt /\ pc' # "idle" =>
             needs_assumptions = assumption_gate(Primary, context)
        /\ generator_calls' = generator_calls + 1 =>
             (final_prompt # "" /\ prompt_seen' = final_prompt /\ path = "none")
        /\ (path' = "answer" /\ path = "none") =>
             (generator_calls = 1 /\ gen_beh # NoBehaviour
                /\ prompt_seen = final_prompt)]_vars

\* C24 witness: an invocation that went through every stage has its answer,
\* with the offer of secondary intents appended.
C24_Witness ==
  /\ pc = "done"
  /\ path = "answer"
  /\ classifier_calls = 1
  /\ generator_calls = 1
  /\ context = extract_context(user_question)
  /\ style = "STRUCTURED"
  /\ needs_assumptions
  /\ prompt_seen = final_prompt
  /\ HasOffer(returned)

\* the question of the invocation mentions Figma and the classifier made it
\* FIGMA_ALIGNMENT with a confidence of at least 0.65
FigmaCase ==
  /\ Classified
  /\ Primary = Str("FIGMA_ALIGNMENT")
  /\ Confidence >= 65
  /\ DictItem(context, "mentions_figma")

\* C25: whenever the primary intent is FIGMA_ALIGNMENT, the confidence is at
\* least 0.65 and the question mentions Figma, the invocation goes on to the
\* generator, and the prompt handed to it holds the Figma-emphasis block and
\* neither the assumption block nor the UI-without-Figma suggestion, also
\* when the question is UI-related.
C25_FigmaPrompt ==
  FigmaCase =>
     /\ ~Clarified
     /\ pc \in {"generate", "secondary", "done"} => ~needs_assumptions
     /\ generator_calls = 1 =>
          /\ Contains(prompt_seen, FigmaBlock)
          /\ ~Contains(prompt_seen, AssumptionBlock)
          /\ ~Contains(prompt_seen, UiBlock)

\* C25 witness: "Does the submit button match the Figma design?", which is
\* UI-related too, classified FIGMA_ALIGNMENT at 0.65, has been answered.
C25_Witness ==
  /\ FigmaCase
  /\ user_question = "Does the submit button match the Figma design?"
  /\ DictItem(context, "ui_related")
  /\ Confidence = 65
  /\ pc = "done"
  /\ path = "answer"
  /\ Contains(prompt_seen, "IMPORTANT: User mentioned Figma.")

\* C26 (as claimed): there is one apology text: what an invocation gets
\* when the generator raises is the very string it returns when any other
\* stage fails.
C26_OneApologyText ==
  /\ (pc = "secondary" /\ gen_beh.kind = "raise") =>
        response = PIPELINE_APOLOGY
  /\ (pc = "done" /\ path = "error") => returned = GENERATION_APOLOGY

\* the classifier was called and failed: it raised, or returned text that
\* is not JSON, or JSON that is not an object
ClassifierFailed ==
  /\ classifier_calls = 1
  /\ \/ cls_beh.kind = "raise"
     \/ ~cls_beh.json.ok
     \/ cls_beh.json.value.t # "obj"

\* classify_intent returned one of its two degraded results
Degraded ==
  /\ Classified
  /\ Primary = Str("STORY_REFINEMENT")
  /\ Secondary = List(<<>>)
  /\ Confidence \in {30, 40}

\* C27: whenever classify_intent returns one of its two degraded results
\* (STORY_REFINEMENT at 0.3 or 0.4) the orchestrator returns the
\* STORY_REFINEMENT clarifying question and never calls the generator; a
\* failed classification never leads to a generated answer.
C27_DegradedClarifies ==
  /\ Degraded =>
       /\ pc \in {"threshold", "done"}
       /\ generator_calls = 0
       /\ pc = "done" =>
            (path = "clarify"
               /\ returned = CLARIFYING_QUESTIONS["STORY_REFINEMENT"])
  /\ ClassifierFailed => (generator_calls = 0 /\ path # "answer")

\* C27 witness: the classifier returned text that is not JSON, and the
\* invocation ended with the STORY_REFINEMENT clarifying question.
C27_Witness ==
  /\ Degraded
  /\ ClassifierFailed
  /\ cls_beh.kind = "return"
  /\ Confidence = 40
  /\ pc = "done"
  /\ path = "clarify"
  /\ generator_calls = 0

\* the classifier returned a parseable object that has no confidence field
NoConfidenceField ==
  /\ classifier_calls = 1
  /\ cls_beh.kind = "return"
  /\ cls_beh.json.ok
  /\ cls_beh.json.value.t = "obj"
  /\ "confidence" \notin DOMAIN cls_beh.json.value.v

\* C28 (as claimed): when the classifier returns a parseable object without
\* a confidence field the confidence is 0.5, and the invocation goes on to
\* generation iff
\* the primary intent is EDGE_CASE_RISK_ANALYSIS or STORY_REFINEMENT (the
\* default of an object without primary_intent); for the other eight
\* intents and for a primary outside the threshold table it returns a
\* clarifying question and the generator is not called.
C28_DefaultConfidenceGate ==
  NoConfidenceField =>
     /\ Confidence = 50
     /\ "primary_intent" \notin DOMAIN cls_beh.json.value.v
          => Primary = Str("STORY_REFINEMENT")
     /\ IF Primary \in {Str("EDGE_CASE_RISK_ANALYSIS"), Str("STORY_REFINEMENT")}
        THEN /\ ~Clarified
             /\ pc \in {"threshold", "assumption", "compose", "generate",
                        "secondary", "done"}
             /\ pc \in {"secondary", "done"} => generator_calls = 1
        ELSE /\ pc \in {"threshold", "done"}
             /\ generator_calls = 0
             /\ pc = "done" =>
                  /\ Clarified
                  /\ returned =
                       (IF Primary.t = "str"
                             /\ Primary.v \in DOMAIN CLARIFYING_QUESTIONS
                        THEN CLARIFYING_QUESTIONS[Primary.v]
                        ELSE CLARIFYING_QUESTIONS["STORY_REFINEMENT"])


\* the text up to the offer of secondary intents, if it carries one
BeforeOffer(text) ==
  IF HasOffer(text)
  THEN SubSeq(text, 1, FindFrom(text, SECONDARY_OFFER, 1) - 1)
  ELSE text

\* the frame is past step 3 with a classification in hand
FrameClassified(f) ==
  f.pc \in {"threshold", "assumption", "compose", "generate", "secondary"}
    \/ (f.pc = "done" /\ f.intent_data # NoClassification)

\* the secondary value is a list of intent names
IntentNames(secondary) ==
  /\ secondary.t = "list"
  /\ \A k \in 1..Len(secondary.v) :
       secondary.v[k].t = "str" /\ secondary.v[k].v \in Intents

\* two invocations with the same question, primary intent and confidence,
\* each with a secondary list of intent names
SameButSecondary(f, g) ==
  /\ FrameClassified(f)
  /\ FrameClassified(g)
  /\ f.user_question = g.user_question
  /\ f.intent_data.primary = g.intent_data.primary
  /\ f.intent_data.confidence = g.intent_data.confidence
  /\ IntentNames(f.intent_data.secondary)
  /\ IntentNames(g.intent_data.secondary)

\* the frame is past step 4
Decided(f) == f.pc \in {"assumption", "compose", "generate", "secondary", "done"}

\* the frame is past step 6
Composed(f) ==
  f.pc \in {"generate", "secondary"} \/ (f.pc = "done" /\ f.path # "clarify")

\* the frame is past step 8
Answered(f) == f.pc = "done" /\ f.path = "answer"

\* C29: two invocations with the same question, primary intent, confidence
\* and generator behaviour, and secondary lists of intent names that may
\* differ, take the same clarify-or-continue decision, call the generator
\* or not alike, hand it the same prompt and get the same response text up
\* to the offer of secondary intents.
C29_SecondaryOnlySuffix ==
  \A i, j \in DOMAIN iv_frames :
    LET f == iv_frames[i]
        g == iv_frames[j]
    IN SameButSecondary(f, g) =>
         /\ (Decided(f) /\ Decided(g)) =>
              /\ f.threshold = g.threshold
              /\ (f.path = "clarify") <=> (g.path = "clarify")
              /\ f.path = "clarify" => f.returned = g.returned
         /\ (f.pc = "done" /\ g.pc = "done") =>
              /\ f.path = g.path
              /\ (f.prompt_seen = "") <=> (g.prompt_seen = "")
         /\ (Composed(f) /\ Composed(g)) =>
              /\ f.needs_assumptions = g.needs_assumptions
              /\ f.final_prompt = g.final_prompt
         /\ (f.pc = "secondary" /\ g.pc = "secondary"
               /\ f.llm_main = g.llm_main) =>
              f.response = g.response
         /\ (Answered(f) /\ Answered(g) /\ f.llm_main = g.llm_main) =>
              /\ f.prompt_seen = g.prompt_seen
              /\ BeforeOffer(f.returned) = BeforeOffer(g.returned)
              /\ BeforeOffer(f.returned) = strip(generate_response(f.llm_main))

\* C29 witness: two answered invocations that differ in the secondary list
\* only, one without and one with the offer.
C29_Witness ==
  /\ DOMAIN iv_frames = Invocations
  /\ SameButSecondary(iv_frames["A"], iv_frames["B"])
  /\ Answered(iv_frames["A"])
  /\ Answered(iv_frames["B"])
  /\ iv_frames["A"].llm_main = iv_frames["B"].llm_main
  /\ iv_frames["A"].llm_main.kind = "return"
  /\ iv_frames["A"].intent_data.secondary = List(<<>>)
  /\ iv_frames["B"].intent_data.secondary = List(<<Str("UI_UX_BEHAVIOUR")>>)
  /\ ~HasOffer(iv_frames["A"].returned)
  /\ HasOffer(iv_frames["B"].returned)

\* the orchestrator was run on the question with a classifier that reported
\* SCOPE_DEFINITION, and it went past the gate to the generator
ScopePastGate ==
  /\ uq_pc = "run"
  /\ classify_intent(uq_run.llm_classifier).value.primary
       = Str("SCOPE_DEFINITION")
  /\ uq_run.result.generated

\* C30: for every question, if detect_response_style returns HYBRID then
\* extract_context gives mentions_scope = false, the question holding no
\* scope keyword; hence whenever the primary intent is SCOPE_DEFINITION,
\* the gate passes and the style is HYBRID, the prompt handed to the
\* generator holds the assumption block.
C30_HybridScopeAssumes ==
  (uq_pc \in {"styled", "run"} /\ uq_style = "HYBRID") =>
     /\ ~DictItem(uq_context, "mentions_scope")
     /\ ~Mentions({"scope", "in-scope", "out of scope"})
     /\ ScopePastGate =>
          /\ Contains(uq_run.result.prompt, "Response Style: HYBRID")
          /\ Contains(uq_run.result.prompt, AssumptionBlock)

\* C30 witness: "button tell me about the" is HYBRID; classified
\* SCOPE_DEFINITION at 0.65 it reached the generator with the assumption
\* block in the prompt.
C30_Witness ==
  /\ ScopePastGate
  /\ uq_style = "HYBRID"
  /\ uq_question = "button tell me about the"
  /\ DictItem(uq_context, "ui_related")
  /\ ~DictItem(uq_context, "mentions_scope")
  /\ uq_run.result.path = "answer"
  /\ Contains(uq_run.result.prompt, "- List assumptions explicitly")

====
